---- MODULE Spec2Model ----
(***************************************************************************)
(* Versioning and retrieval core of the domain-document / project-         *)
(* convention store: the two repositories over their relational tables,    *)
(* the create_or_update services that compute "latest + 1" in application  *)
(* code, soft delete, and embedding indexing.                              *)
(*                                                                         *)
(* Each database transaction (one query, one insert + commit, one UPDATE   *)
(* statement + commit) is one atomic step; a create_or_update call is the  *)
(* sequence find_latest -> save -> index of such steps, so that calls of   *)
(* concurrent requests interleave between their transactions.              *)
(***************************************************************************)
EXTENDS Integers, Sequences, FiniteSets, TLC

(* ------------------------------ bounds -------------------------------- *)
NumCallers == 2      \* requests served concurrently
MaxCalls   == 3      \* requests (create_or_update, soft_delete) accepted in one behaviour
MaxTopK    == 2      \* largest top_k of a search call
MaxWrites  == 2      \* writing requests accepted in a behaviour with searches
MaxTextLen == 4      \* longest text handed to the embedding adapter alone
MaxItems   == 2      \* most properties, and most policies, of a projected document

Callers == 1..NumCallers

(* ------------------------------ inputs -------------------------------- *)
DOMAIN_DOCUMENT    == "DOMAIN_DOCUMENT"
PROJECT_CONVENTION == "PROJECT_CONVENTION"
Families == {DOMAIN_DOCUMENT, PROJECT_CONVENTION}

None == "None"   \* an absent optional string
NULL == -1       \* a NULL timestamp column
NoVector == << >>  \* a NULL embedding column

\* logical keys: <<project, service, domain>> / <<project, category, title>>
DocumentKeys   == {<<"Ttutta", "Auth", "User">>, <<"Ttutta", "Auth", "Order">>}
ConventionKeys == {<<"Ttutta", "NAMING", "variables">>}

KeysOf(family) == IF family = DOMAIN_DOCUMENT THEN DocumentKeys ELSE ConventionKeys

\* the document keys of the behaviours that write to several projects
AllDocumentKeys == DocumentKeys \cup {<<"Shop", "Auth", "User">>}

\* the projects asked for: those of the keys, and one that holds nothing
AllProjects == {key[1] : key \in AllDocumentKeys \cup ConventionKeys} \cup {"Nowhere"}

\* content fields of a create_or_update_document call
DocumentPayloads ==
    { [summary |-> "user accounts",
       properties |-> << [name |-> "email", type |-> "String", description |-> "user email",
                          is_required |-> TRUE, is_immutable |-> FALSE] >>,
       policies |-> << [category |-> "PERMISSION", subject |-> "ADMIN", content |-> "admin only"] >>],
      [summary |-> "accounts and profiles",
       properties |-> << [name |-> "name", type |-> "String", description |-> "display name",
                          is_required |-> FALSE, is_immutable |-> FALSE],
                         [name |-> "email", type |-> "String", description |-> "user email",
                          is_required |-> TRUE, is_immutable |-> TRUE] >>,
       policies |-> << >>] }

\* content fields of a create_or_update_convention call
ConventionPayloads ==
    { [content |-> "use camelCase", example_correct |-> "userName", example_incorrect |-> None],
      [content |-> "use snake_case", example_correct |-> None, example_incorrect |-> None] }

PayloadsOf(family) == IF family = DOMAIN_DOCUMENT THEN DocumentPayloads ELSE ConventionPayloads

(* ------------------------------ state --------------------------------- *)
VARIABLES
    domain_document,      \* rows of table domain_document
    domain_property,      \* rows of table domain_property
    domain_policy,        \* rows of table domain_policy
    project_convention,   \* rows of table project_convention
    pc,                   \* per caller: position inside its create_or_update call
    call,                 \* per caller: arguments and locals of the call it runs
    response,             \* what the call that completed last returned or raised
    clock,                \* datetime.now() / NOW(): advances with every accepted request
    uuids,                \* number of uuid4() identifiers handed out so far
    invoked,              \* per family and key: create_or_update calls started
    _model,               \* SentenceTransformerAdapter._model of one adapter instance
    loads                 \* SentenceTransformer(MODEL_NAME) constructions by that adapter

vars == <<domain_document, domain_property, domain_policy, project_convention,
          pc, call, response, clock, uuids, invoked, _model, loads>>

(* -------------------------- ORM entity classes ------------------------ *)
\* mapped attributes of DomainDocumentEntity
DomainDocumentEntity ==
    {"identifier", "project", "service", "domain", "summary", "version",
     "created_at", "updated_at", "deleted_at", "embedding"}

\* mapped attributes of ProjectConventionEntity
ProjectConventionEntity ==
    {"identifier", "project", "category", "title", "version", "content",
     "example_correct", "example_incorrect", "created_at", "updated_at"}

EntityOf(family) ==
    IF family = DOMAIN_DOCUMENT THEN DomainDocumentEntity ELSE ProjectConventionEntity

\* Entity.attr on a mapped class raises AttributeError for an unmapped name
AttributeError == "AttributeError"
IntegrityError == "IntegrityError"

TableOf(family) ==
    IF family = DOMAIN_DOCUMENT THEN domain_document ELSE project_convention

\* the columns compared with the logical key in every repository filter
LogicalKey(family, row) ==
    IF family = DOMAIN_DOCUMENT
    THEN <<row.project, row.service, row.domain>>
    ELSE <<row.project, row.category, row.title>>

(* ------------------------------ mappers ------------------------------- *)
\* DomainProperty.model_validate(p_entity): the model's fields only
DomainProperty(p_entity) ==
    [name |-> p_entity.name, description |-> p_entity.description, type |-> p_entity.type,
     is_required |-> p_entity.is_required, is_immutable |-> p_entity.is_immutable]

\* DomainPolicy.model_validate(pol_entity)
DomainPolicy(pol_entity) ==
    [category |-> pol_entity.category, subject |-> pol_entity.subject,
     content |-> pol_entity.content]

\* repository.to_domain for both families; the document mapper copies neither
\* deleted_at nor embedding, and loads the child rows of the entity
to_domain(family, entity) ==
    IF family = DOMAIN_DOCUMENT
    THEN [identifier |-> entity.identifier, project |-> entity.project,
          service |-> entity.service, domain |-> entity.domain,
          summary |-> entity.summary, version |-> entity.version,
          properties |-> {DomainProperty(p) : p \in {q \in domain_property :
                                  q.domain_identifier = entity.identifier}},
          policies |-> {DomainPolicy(p) : p \in {q \in domain_policy :
                                  q.domain_identifier = entity.identifier}},
          created_at |-> entity.created_at, updated_at |-> entity.updated_at,
          deleted_at |-> NULL]
    ELSE [identifier |-> entity.identifier, project |-> entity.project,
          category |-> entity.category, title |-> entity.title,
          version |-> entity.version, content |-> entity.content,
          example_correct |-> entity.example_correct,
          example_incorrect |-> entity.example_incorrect,
          created_at |-> entity.created_at, updated_at |-> entity.updated_at]

\* repository.to_entity: a new, not yet deleted, not yet embedded row
to_entity(family, model) ==
    IF family = DOMAIN_DOCUMENT
    THEN [identifier |-> model.identifier, project |-> model.project,
          service |-> model.service, domain |-> model.domain,
          summary |-> model.summary, version |-> model.version,
          created_at |-> model.created_at, updated_at |-> model.updated_at,
          deleted_at |-> NULL, embedding |-> NoVector]
    ELSE [identifier |-> model.identifier, project |-> model.project,
          category |-> model.category, title |-> model.title,
          version |-> model.version, content |-> model.content,
          example_correct |-> model.example_correct,
          example_incorrect |-> model.example_incorrect,
          created_at |-> model.created_at, updated_at |-> model.updated_at]

(* ------------------------------ queries ------------------------------- *)
\* ORDER BY version DESC over a result set
RECURSIVE order_by_version_desc(_)
order_by_version_desc(rows) ==
    IF rows = {} THEN << >>
    ELSE LET top == CHOOSE r \in rows : \A o \in rows : o.version <= r.version
         IN <<top>> \o order_by_version_desc(rows \ {top})

\* .filter(<logical key columns> == key, Entity.deleted_at.is_(None))
filter_active_by_key(family, key) ==
    {r \in TableOf(family) : LogicalKey(family, r) = key /\ r.deleted_at = NULL}

Returned(value) == [raised |-> None, value |-> value]
Raised(error)   == [raised |-> error, value |-> << >>]

\* Repository.find_latest_by_logical_key: Optional as a sequence of length <= 1
find_latest_by_logical_key(family, key) ==
    IF "deleted_at" \notin EntityOf(family) THEN Raised(AttributeError)
    ELSE LET entities == order_by_version_desc(filter_active_by_key(family, key))
         IN IF entities = << >> THEN Returned(<< >>)
            ELSE Returned(<< to_domain(family, Head(entities)) >>)

\* Repository.find_all_versions_by_logical_key
find_all_versions_by_logical_key(family, key) ==
    IF "deleted_at" \notin EntityOf(family) THEN Raised(AttributeError)
    ELSE LET entities == order_by_version_desc(filter_active_by_key(family, key))
         IN Returned([i \in 1..Len(entities) |-> to_domain(family, entities[i])])

\* the logical keys of domain documents in ascending (project, service, domain)
\* order, as ORDER BY project, service, domain sorts them
DocumentKeysAscending ==
    << <<"Shop", "Auth", "User">>, <<"Ttutta", "Auth", "Order">>, <<"Ttutta", "Auth", "User">> >>

\* ORDER BY project, service, domain, version DESC over a result set
RECURSIVE order_by_logical_key(_, _)
order_by_logical_key(rows, keys) ==
    IF keys = << >> THEN << >>
    ELSE order_by_version_desc({r \in rows : LogicalKey(DOMAIN_DOCUMENT, r) = Head(keys)})
            \o order_by_logical_key(rows, Tail(keys))

\* a lookup by primary key without the deleted_at test
find_by_identifier_unfiltered(family, identifier) ==
    LET entities == {r \in TableOf(family) : r.identifier = identifier}
    IN IF entities = {} THEN Returned(<< >>)
       ELSE Returned(<< to_domain(family, CHOOSE r \in entities : TRUE) >>)

\* Repository.find_by_identifier: the document repository filters in the query;
\* the convention repository loads the row with session.get and reads
\* entity.deleted_at
find_by_identifier(family, identifier) ==
    IF family = DOMAIN_DOCUMENT
    THEN LET entities == {r \in domain_document :
                             r.identifier = identifier /\ r.deleted_at = NULL}
         IN IF entities = {} THEN Returned(<< >>)
            ELSE Returned(<< to_domain(family, CHOOSE r \in entities : TRUE) >>)
    ELSE LET entities == {r \in project_convention : r.identifier = identifier}
         IN IF entities = {} THEN Returned(<< >>)
            ELSE IF "deleted_at" \notin EntityOf(family) THEN Raised(AttributeError)
            ELSE LET entity == CHOOSE r \in entities : TRUE
                 IN IF entity.deleted_at = NULL
                    THEN Returned(<< to_domain(family, entity) >>)
                    ELSE Returned(<< >>)

\* DocumentRepository.find_by_full_name: logical key and exact version
find_by_full_name(key, version) ==
    LET entities == {r \in filter_active_by_key(DOMAIN_DOCUMENT, key) : r.version = version}
    IN IF entities = {} THEN Returned(<< >>)
       ELSE Returned(<< to_domain(DOMAIN_DOCUMENT, CHOOSE r \in entities : TRUE) >>)

\* DocumentRepository.find_all_latest_by_project: DISTINCT ON the logical key
\* over the active rows of the project, ordered by version DESC within a key,
\* selects one identifier per key; the outer query loads these rows
find_all_latest_by_project(project) ==
    LET active == {r \in domain_document : r.project = project /\ r.deleted_at = NULL}
        latest_identifiers ==
            {r.identifier : r \in {a \in active :
                \A o \in active :
                    LogicalKey(DOMAIN_DOCUMENT, o) = LogicalKey(DOMAIN_DOCUMENT, a)
                        => o.version <= a.version}}
        entities == order_by_logical_key(
                        {r \in domain_document : r.identifier \in latest_identifiers},
                        DocumentKeysAscending)
    IN Returned([i \in 1..Len(entities) |-> to_domain(DOMAIN_DOCUMENT, entities[i])])

\* ConventionRepository.find_all_latest_by_project: DISTINCT ON the logical key
\* over the subquery of the active rows of the project; the filter of the
\* subquery names ProjectConventionEntity.deleted_at
convention_find_all_latest_by_project(project) ==
    IF "deleted_at" \notin EntityOf(PROJECT_CONVENTION) THEN Raised(AttributeError)
    ELSE LET active == {r \in project_convention :
                           r.project = project /\ r.deleted_at = NULL}
             latest == {a \in active :
                           \A o \in active :
                               LogicalKey(PROJECT_CONVENTION, o)
                                       = LogicalKey(PROJECT_CONVENTION, a)
                                   => o.version <= a.version}
             entities == order_by_version_desc(latest)
         IN Returned([i \in 1..Len(entities) |->
                         to_domain(PROJECT_CONVENTION, entities[i])])

\* DocumentRepository.find_all_by_project / ConventionRepository.find_by_project:
\* .all() without ORDER BY, the rows in no specified order: the result is
\* given as the set of its elements
find_all_by_project(family, project) ==
    IF "deleted_at" \notin EntityOf(family) THEN [raised |-> AttributeError, value |-> {}]
    ELSE Returned({to_domain(family, r) : r \in {e \in TableOf(family) :
                                    e.project = project /\ e.deleted_at = NULL}})

\* Repository.get_all_unique_project_names of either family: SELECT DISTINCT
\* project over the non-deleted rows, a list in no specified order, given as
\* the number of times each name occurs in it
get_all_unique_project_names(family) ==
    IF "deleted_at" \notin EntityOf(family) THEN Raised(AttributeError)
    ELSE Returned([name \in {r.project : r \in {e \in TableOf(family) :
                                                   e.deleted_at = NULL}} |-> 1])

(* ------------------------------ read tools ---------------------------- *)
\* the methods DocumentService defines
DocumentService ==
    {"create_or_update_document", "get_document_by_full_name", "get_document_context",
     "find_all_latest_by_project", "get_all_unique_project_names",
     "get_all_versions_of_document", "soft_delete_document_by_logical_key"}

\* document.model_dump(mode='json'): the fields of DomainDocument, the
\* dependencies (no relationship is ever stored) as an empty list
model_dump(document) ==
    [field \in DOMAIN document \cup {"dependencies"} |->
        IF field = "dependencies" THEN << >> ELSE document[field]]

\* handler.read_domain_spec; version 0 stands for the omitted version, which
\* "if version:" treats like None
read_domain_spec(key, version) ==
    IF version # 0
    THEN LET document == find_by_full_name(key, version)
         IN IF document.value # << >> THEN Returned(<< model_dump(document.value[1]) >>)
            ELSE Returned(<< >>)
    ELSE IF "find_latest_by_logical_key" \notin DocumentService
         THEN Raised(AttributeError)
         ELSE LET document == find_latest_by_logical_key(DOMAIN_DOCUMENT, key)
              IN IF document.value # << >>
                 THEN Returned(<< model_dump(document.value[1]) >>)
                 ELSE Returned(<< >>)

\* ConventionRepository.find_latest_by_project_and_category: DISTINCT ON the
\* logical key over the active rows of the project and category, the highest
\* version of each key; the filter names ProjectConventionEntity.deleted_at
find_latest_by_project_and_category(project, category) ==
    IF "deleted_at" \notin EntityOf(PROJECT_CONVENTION) THEN Raised(AttributeError)
    ELSE LET active == {r \in project_convention :
                           /\ r.project = project /\ r.category = category
                           /\ r.deleted_at = NULL}
             latest == {a \in active :
                           \A o \in active :
                               LogicalKey(PROJECT_CONVENTION, o)
                                       = LogicalKey(PROJECT_CONVENTION, a)
                                   => o.version <= a.version}
             entities == order_by_version_desc(latest)
         IN Returned([i \in 1..Len(entities) |->
                         to_domain(PROJECT_CONVENTION, entities[i])])

\* the categories asked for
Categories == {key[2] : key \in ConventionKeys} \cup {"ARCHITECTURE"}

\* handler.read_project_conventions; category None stands for the omitted
\* category
read_project_conventions(project, category) ==
    IF category # None
    THEN find_latest_by_project_and_category(project, category)
    ELSE convention_find_all_latest_by_project(project)

(* --------------------------- embedding side --------------------------- *)
RECURSIVE join(_, _)
\* sep.join(parts)
join(sep, parts) ==
    IF parts = << >> THEN ""
    ELSE IF Len(parts) = 1 THEN parts[1]
    ELSE parts[1] \o sep \o join(sep, Tail(parts))

\* EmbeddingService._create_document_text (the Korean field labels of the
\* source are written in English)
_create_document_text(doc) ==
    LET parts == << "domain: " \o doc.domain, "project: " \o doc.project,
                    "service: " \o doc.service, "summary: " \o doc.summary >>
        props == join(", ", [i \in 1..Len(doc.properties) |->
                     doc.properties[i].name \o "(" \o doc.properties[i].type \o "): "
                         \o doc.properties[i].description])
        policies == join(", ", [i \in 1..Len(doc.policies) |->
                     doc.policies[i].category \o " - " \o doc.policies[i].content])
        parts2 == IF doc.properties # << >> THEN Append(parts, "properties: " \o props) ELSE parts
        parts3 == IF doc.policies # << >> THEN Append(parts2, "policies: " \o policies) ELSE parts2
    IN join(" | ", parts3)

\* a projection that lists every example that is not None, the empty one too
_create_convention_text_of_given_examples(conv) ==
    LET parts == << "convention: " \o conv.title, "category: " \o conv.category,
                    "content: " \o conv.content >>
        parts2 == IF conv.example_correct # None
                  THEN Append(parts, "correct example: " \o conv.example_correct) ELSE parts
        parts3 == IF conv.example_incorrect # None
                  THEN Append(parts2, "incorrect example: " \o conv.example_incorrect) ELSE parts2
    IN join(" | ", parts3)

\* EmbeddingService._create_convention_text; `if conv.example_correct:` is
\* false for None and for the empty string
_create_convention_text(conv) ==
    LET parts == << "convention: " \o conv.title, "category: " \o conv.category,
                    "content: " \o conv.content >>
        parts2 == IF conv.example_correct \notin {None, ""}
                  THEN Append(parts, "correct example: " \o conv.example_correct) ELSE parts
        parts3 == IF conv.example_incorrect \notin {None, ""}
                  THEN Append(parts2, "incorrect example: " \o conv.example_incorrect) ELSE parts2
    IN join(" | ", parts3)

\* the error raised by generate_embedding for a text without content
ValueError == "ValueError"

\* the characters str.strip() removes
Whitespace == {" ", "\t", "\n"}

RECURSIVE lstrip(_)
lstrip(text) ==
    IF text = "" THEN ""
    ELSE IF SubSeq(text, 1, 1) \in Whitespace THEN lstrip(SubSeq(text, 2, Len(text)))
    ELSE text

RECURSIVE rstrip(_)
rstrip(text) ==
    IF text = "" THEN ""
    ELSE IF SubSeq(text, Len(text), Len(text)) \in Whitespace
         THEN rstrip(SubSeq(text, 1, Len(text) - 1))
    ELSE text

\* text.strip()
strip(text) == rstrip(lstrip(text))

\* SentenceTransformer.encode(text).tolist(): an opaque deterministic
\* text -> vector function, the vector standing for the text it encodes
encode(text) == << text >>

\* generate_embedding rejecting the empty string only
generate_embedding_unstripped(text) ==
    IF text = "" THEN Raised(ValueError) ELSE Returned(encode(text))

\* SentenceTransformerAdapter.generate_embedding, the model loaded
generate_embedding(text) ==
    IF text = "" \/ strip(text) = "" THEN Raised(ValueError) ELSE Returned(encode(text))

(* ------------------------------ writes -------------------------------- *)
\* the INSERT's checks had the entity no unique constraint over logical key
\* and version: the primary key alone
violates_primary_key_only(family, entity) ==
    \E r \in TableOf(family) : r.identifier = entity.identifier

\* the unique constraint uq_domain_document / uq_project_convention and the
\* primary key, as checked by the INSERT
violates_constraints(family, entity) ==
    \E r \in TableOf(family) :
        \/ r.identifier = entity.identifier
        \/ LogicalKey(family, r) = LogicalKey(family, entity) /\ r.version = entity.version

\* a save written as session.merge on the logical key: the stored version of
\* the key is replaced
merge(family, entity) ==
    {r \in TableOf(family) : LogicalKey(family, r) # LogicalKey(family, entity)}
        \cup {entity}

\* rows of domain_document after DocumentRepository.save / of project_convention
\* after ConventionRepository.save: always an INSERT
insert(family, entity) == TableOf(family) \cup {entity}

\* child rows built by DocumentRepository.save
property_entities(document, now) ==
    { [identifier |-> <<document.identifier, "property", idx>>,
       domain_identifier |-> document.identifier,
       name |-> document.properties[idx].name,
       description |-> document.properties[idx].description,
       type |-> document.properties[idx].type,
       is_required |-> document.properties[idx].is_required,
       is_immutable |-> document.properties[idx].is_immutable,
       display_order |-> idx - 1,
       created_at |-> now, updated_at |-> now] : idx \in 1..Len(document.properties) }

policy_entities(document, now) ==
    { [identifier |-> <<document.identifier, "policy", idx>>,
       domain_identifier |-> document.identifier,
       category |-> document.policies[idx].category,
       subject |-> document.policies[idx].subject,
       content |-> document.policies[idx].content,
       created_at |-> now, updated_at |-> now] : idx \in 1..Len(document.policies) }

\* the UPDATE of the soft delete without its deleted_at IS NULL filter
soft_delete_rows_unfiltered(family, key, now) ==
    { IF LogicalKey(family, r) = key
      THEN [r EXCEPT !.deleted_at = now, !.updated_at = now]
      ELSE r : r \in TableOf(family) }

\* the UPDATE of the soft delete filtering on the project of the key only
soft_delete_rows_of_project(family, key, now) ==
    { IF r.project = key[1] /\ r.deleted_at = NULL
      THEN [r EXCEPT !.deleted_at = now, !.updated_at = now]
      ELSE r : r \in TableOf(family) }

\* rows after the UPDATE of soft_delete_all_versions_by_logical_key; updated_at
\* follows from the column's onupdate=func.now()
soft_delete_rows(family, key, now) ==
    { IF LogicalKey(family, r) = key /\ r.deleted_at = NULL
      THEN [r EXCEPT !.deleted_at = now, !.updated_at = now]
      ELSE r : r \in TableOf(family) }

\* the UPDATE of update_embedding stamping created_at instead of updated_at
update_embedding_stamping_created_at(table, identifier, embedding, now) ==
    { IF r.identifier = identifier
      THEN [r EXCEPT !.embedding = embedding, !.created_at = now]
      ELSE r : r \in table }

\* the UPDATE of update_embedding sparing a row that has a vector
update_embedding_keeping_prior(table, identifier, embedding, now) ==
    { IF r.identifier = identifier /\ r.embedding = NoVector
      THEN [r EXCEPT !.embedding = embedding, !.updated_at = now]
      ELSE r : r \in table }

\* rows after the UPDATE of Repository.update_embedding
update_embedding(table, identifier, embedding, now) ==
    { IF r.identifier = identifier
      THEN [r EXCEPT !.embedding = embedding, !.updated_at = now]
      ELSE r : r \in table }

(* ------------------------------ services ------------------------------ *)
CallSites ==
    UNION {{<<family, key>> : key \in KeysOf(family)} : family \in Families}
        \cup {<<DOMAIN_DOCUMENT, key>> : key \in AllDocumentKeys}

\* a caller's locals while its create_or_update call runs: the arguments and
\* the aggregate under construction
NoCall == [family |-> None, key |-> << >>, model |-> << >>]

\* the outcome of a completed call: the value returned (the stored version of
\* a create_or_update with its identifier, the row count of a soft delete) or
\* the error raised
NoResponse == [caller |-> 0, op |-> None, family |-> None, key |-> << >>,
               identifier |-> 0, result |-> 0, raised |-> None]

\* requests accepted so far
CallsMade == clock

\* a request is served by the first caller that runs no call
free(p) ==
    /\ pc[p] = "idle"
    /\ \A q \in Callers : q < p => pc[q] # "idle"

\* a writing request is accepted while the bound on requests allows
accepts(p) == free(p) /\ CallsMade < MaxCalls

\* the aggregate constructed by create_or_update_document / _convention
new_aggregate(family, key, payload, identifier, version, now) ==
    IF family = DOMAIN_DOCUMENT
    THEN [identifier |-> identifier, project |-> key[1], service |-> key[2],
          domain |-> key[3], summary |-> payload.summary,
          version |-> version,
          properties |-> payload.properties, policies |-> payload.policies,
          created_at |-> now, updated_at |-> now]
    ELSE [identifier |-> identifier, project |-> key[1], category |-> key[2],
          title |-> key[3], version |-> version,
          content |-> payload.content, example_correct |-> payload.example_correct,
          example_incorrect |-> payload.example_incorrect,
          created_at |-> now, updated_at |-> now]

\* a version number that skips one after the latest
new_version_number_skipping(latest_version) ==
    IF latest_version = << >> THEN 1 ELSE latest_version[1].version + 2

\* new_version_number as the service computes it from the lookup's result
new_version_number(latest_version) ==
    IF latest_version = << >> THEN 1 ELSE latest_version[1].version + 1

\* uuid.uuid4(): an identifier no earlier call of uuid4 returned
uuid4 == uuids + 1

\* create_or_update, first transaction: look the latest version up, compute the
\* new version number and construct the new aggregate
create_or_update_find_latest(p, family, key, payload) ==
    /\ accepts(p)
    /\ clock' = clock + 1
    /\ invoked' = [invoked EXCEPT ![<<family, key>>] = @ + 1]
    /\ LET latest_version == find_latest_by_logical_key(family, key)
       IN IF latest_version.raised # None
          THEN /\ response' = [NoResponse EXCEPT !.caller = p, !.op = "create_or_update",
                                  !.family = family, !.key = key,
                                  !.raised = latest_version.raised]
               /\ UNCHANGED <<pc, call, uuids>>
          ELSE /\ pc' = [pc EXCEPT ![p] = "constructed"]
               /\ call' = [call EXCEPT ![p] = [family |-> family, key |-> key,
                                model |-> << new_aggregate(family, key, payload, uuid4,
                                              new_version_number(latest_version.value),
                                              clock') >>]]
               /\ uuids' = uuids + 1
               /\ UNCHANGED response
    /\ UNCHANGED <<domain_document, domain_property, domain_policy, project_convention,
                   _model, loads>>

\* the outcome of caller p's create_or_update call
create_or_update_response(p, raised) ==
    [caller |-> p, op |-> "create_or_update", family |-> call[p].family,
     key |-> call[p].key, identifier |-> call[p].model[1].identifier,
     result |-> call[p].model[1].version, raised |-> raised]

\* create_or_update, second transaction: Repository.save, whose commit either
\* inserts the row with its child rows or fails on a constraint
create_or_update_save(p) ==
    /\ pc[p] = "constructed"
    /\ LET family == call[p].family
           model == call[p].model[1]
           entity == to_entity(family, model)
       IN IF violates_constraints(family, entity)
          THEN /\ pc' = [pc EXCEPT ![p] = "idle"]
               /\ call' = [call EXCEPT ![p] = NoCall]
               /\ response' = create_or_update_response(p, IntegrityError)
               /\ UNCHANGED <<domain_document, domain_property, domain_policy,
                              project_convention>>
          ELSE /\ pc' = [pc EXCEPT ![p] = "saved"]
               /\ UNCHANGED <<call, response>>
               /\ IF family = DOMAIN_DOCUMENT
                  THEN /\ domain_document' = insert(family, entity)
                       /\ domain_property' = domain_property \cup property_entities(model, clock)
                       /\ domain_policy' = domain_policy \cup policy_entities(model, clock)
                       /\ UNCHANGED project_convention
                  ELSE /\ project_convention' = insert(family, entity)
                       /\ UNCHANGED <<domain_document, domain_property, domain_policy>>
    /\ UNCHANGED <<clock, uuids, invoked, _model, loads>>

OperationalError == "OperationalError"

\* a failed save that leaves the parent row behind without its child rows
create_or_update_save_failed_partial(p) ==
    /\ pc[p] = "constructed"
    /\ pc' = [pc EXCEPT ![p] = "idle"]
    /\ call' = [call EXCEPT ![p] = NoCall]
    /\ response' = create_or_update_response(p, OperationalError)
    /\ IF call[p].family = DOMAIN_DOCUMENT
       THEN /\ domain_document' = domain_document
                    \cup {to_entity(DOMAIN_DOCUMENT, call[p].model[1])}
            /\ UNCHANGED project_convention
       ELSE /\ project_convention' = project_convention
                    \cup {to_entity(PROJECT_CONVENTION, call[p].model[1])}
            /\ UNCHANGED domain_document
    /\ UNCHANGED <<domain_property, domain_policy, clock, uuids, invoked, _model, loads>>

\* create_or_update, second transaction failing on a storage error (the
\* database is unavailable at commit): the transaction of Repository.save is
\* not committed and the error propagates to the caller
create_or_update_save_failed(p) ==
    /\ pc[p] = "constructed"
    /\ pc' = [pc EXCEPT ![p] = "idle"]
    /\ call' = [call EXCEPT ![p] = NoCall]
    /\ response' = create_or_update_response(p, OperationalError)
    /\ UNCHANGED <<domain_document, domain_property, domain_policy, project_convention,
                   clock, uuids, invoked, _model, loads>>

\* create_or_update, third transaction: create_embedding_for_document /
\* _convention stores the vector of the saved aggregate; then the call returns
create_or_update_index(p) ==
    /\ pc[p] = "saved"
    /\ "embedding" \in EntityOf(call[p].family)
    /\ LET model == call[p].model[1]
           embedding == generate_embedding(IF call[p].family = DOMAIN_DOCUMENT
                                           THEN _create_document_text(model)
                                           ELSE _create_convention_text(model))
       IN /\ embedding.raised = None
          /\ IF call[p].family = DOMAIN_DOCUMENT
             THEN /\ domain_document' = update_embedding(domain_document, model.identifier,
                                                         embedding.value, clock)
                  /\ UNCHANGED project_convention
             ELSE /\ project_convention' = update_embedding(project_convention,
                                              model.identifier, embedding.value, clock)
                  /\ UNCHANGED domain_document
    /\ pc' = [pc EXCEPT ![p] = "idle"]
    /\ call' = [call EXCEPT ![p] = NoCall]
    /\ response' = create_or_update_response(p, None)
    /\ UNCHANGED <<domain_property, domain_policy, clock, uuids, invoked, _model, loads>>

\* an indexing failure that undoes the save and fails the call
create_or_update_index_failed_rolling_back(p) ==
    /\ pc[p] = "saved"
    /\ pc' = [pc EXCEPT ![p] = "idle"]
    /\ call' = [call EXCEPT ![p] = NoCall]
    /\ response' = create_or_update_response(p, "Exception")
    /\ domain_document' = {r \in domain_document :
                              r.identifier # call[p].model[1].identifier}
    /\ domain_property' = {c \in domain_property :
                              c.domain_identifier # call[p].model[1].identifier}
    /\ domain_policy' = {c \in domain_policy :
                              c.domain_identifier # call[p].model[1].identifier}
    /\ UNCHANGED <<project_convention, clock, uuids, invoked, _model, loads>>

\* create_or_update returning without a stored vector: no embedding service is
\* wired, or the indexing raised and the service logged and swallowed it
create_or_update_index_failed(p) ==
    /\ pc[p] = "saved"
    /\ pc' = [pc EXCEPT ![p] = "idle"]
    /\ call' = [call EXCEPT ![p] = NoCall]
    /\ response' = create_or_update_response(p, None)
    /\ UNCHANGED <<domain_document, domain_property, domain_policy, project_convention,
                   clock, uuids, invoked, _model, loads>>

\* Service.soft_delete_*_by_logical_key -> Repository.soft_delete_all_versions_by_logical_key:
\* one UPDATE statement and its commit; returns the affected row count
soft_delete_all_versions_by_logical_key(p, family, key) ==
    /\ accepts(p)
    /\ clock' = clock + 1
    /\ IF "deleted_at" \notin EntityOf(family)
       THEN /\ response' = [NoResponse EXCEPT !.caller = p, !.op = "soft_delete",
                               !.family = family, !.key = key, !.raised = AttributeError]
            /\ UNCHANGED <<domain_document, project_convention>>
       ELSE /\ response' = [NoResponse EXCEPT !.caller = p, !.op = "soft_delete",
                               !.family = family, !.key = key,
                               !.result = Cardinality(filter_active_by_key(family, key))]
            /\ IF family = DOMAIN_DOCUMENT
               THEN /\ domain_document' = soft_delete_rows(family, key, clock')
                    /\ UNCHANGED project_convention
               ELSE /\ project_convention' = soft_delete_rows(family, key, clock')
                    /\ UNCHANGED domain_document
    /\ UNCHANGED <<domain_property, domain_policy, pc, call, uuids, invoked, _model, loads>>

(* --------------------------- semantic search -------------------------- *)
\* queries of a search call; two of them have no content
Queries == {"user email", "naming rule", "", " \t"}

\* similarity thresholds of a search call, in hundredths
Thresholds == {30, 50}

\* top_k of a search call
TopKs == 0..MaxTopK

\* word in text
contains(text, word) ==
    \E i \in 1..(Len(text) - Len(word) + 1) : SubSeq(text, i, i + Len(word) - 1) = word

\* the texts the embedding service builds for the aggregates of the two families
Corpus ==
    {_create_document_text(new_aggregate(DOMAIN_DOCUMENT, key, payload, 0, 0, 0)) :
         key \in DocumentKeys, payload \in DocumentPayloads}
    \cup {_create_convention_text(new_aggregate(PROJECT_CONVENTION, key, payload, 0, 0, 0)) :
         key \in ConventionKeys, payload \in ConventionPayloads}

\* pgvector's embedding <=> query_vector, the cosine distance of the two
\* encoded texts in hundredths: the encoder is opaque, the distances are
\* fixed per text and query so that rows tie within and across the families
\* and some similarities equal a threshold
cosine_distance ==
    [text \in Corpus |-> [query \in {q \in Queries : strip(q) # ""} |->
        IF query = "user email"
        THEN IF contains(text, "summary: user accounts") THEN 20
             ELSE IF contains(text, "profiles") THEN 50
             ELSE IF contains(text, "camelCase") THEN 20
             ELSE 70
        ELSE IF contains(text, "summary: user accounts") THEN 70
             ELSE IF contains(text, "profiles") THEN 50
             ELSE IF contains(text, "camelCase") THEN 10
             ELSE 50]]

\* 1 - (embedding <=> query_vector) of the SELECT, in hundredths
similarity_of(embedding, query_vector) ==
    100 - cosine_distance[embedding[1]][query_vector[1]]

\* a WHERE clause that admits the latest version of a logical key only
embedded_active_latest(family) ==
    {r \in TableOf(family) :
        /\ r.deleted_at = NULL /\ r.embedding # NoVector
        /\ \A other \in TableOf(family) :
              LogicalKey(family, other) = LogicalKey(family, r)
                  => other.version <= r.version}

\* a WHERE clause without the test of deleted_at
embedded_active_unfiltered(family) ==
    {r \in TableOf(family) : r.embedding # NoVector}

\* WHERE deleted_at IS NULL AND embedding IS NOT NULL
embedded_active(family) ==
    {r \in TableOf(family) : r.deleted_at = NULL /\ r.embedding # NoVector}

\* a WHERE clause admitting the similarity equal to the threshold
searchable_inclusive(family, query_vector, similarity_threshold) ==
    {r \in embedded_active(family) :
        similarity_of(r.embedding, query_vector) >= similarity_threshold}

\* the rows the WHERE clause of semantic_search lets through:
\* ... AND 1 - (embedding <=> query_vector) > :threshold
searchable(family, query_vector, similarity_threshold) ==
    {r \in embedded_active(family) :
        similarity_of(r.embedding, query_vector) > similarity_threshold}

\* the orders ORDER BY embedding <=> query_vector may give the rows: ascending
\* distance, rows of equal distance in any order
order_by_distance(rows, query_vector) ==
    {ranked \in [1..Cardinality(rows) -> rows] :
        /\ \A i, j \in 1..Cardinality(rows) : i # j => ranked[i] # ranked[j]
        /\ \A i, j \in 1..Cardinality(rows) : i < j =>
               similarity_of(ranked[i].embedding, query_vector)
                   >= similarity_of(ranked[j].embedding, query_vector)}

\* a LIMIT one row short of top_k
limit_short(ranked, top_k) ==
    SubSeq(ranked, 1, IF top_k - 1 < Len(ranked) THEN top_k - 1 ELSE Len(ranked))

\* LIMIT :top_k
limit(ranked, top_k) ==
    SubSeq(ranked, 1, IF top_k < Len(ranked) THEN top_k ELSE Len(ranked))

\* Repository.semantic_search of either family, ranked being the order the
\* SELECT gave the rows: each row is fetched again by its identifier and
\* mapped, a row that is no longer found is skipped
semantic_search_rows(family, query_vector, top_k, ranked) ==
    LET rows == limit(ranked, top_k)
        found == SelectSeq(rows, LAMBDA row :
                     \E e \in TableOf(family) : e.identifier = row.identifier)
    IN [i \in 1..Len(found) |->
           [document |-> to_domain(family, found[i]),
            similarity |-> similarity_of(found[i].embedding, query_vector)]]

\* SemanticSearchService._document_to_dict
_document_to_dict(doc) ==
    [identifier |-> doc.identifier, project |-> doc.project, service |-> doc.service,
     domain |-> doc.domain, summary |-> doc.summary, version |-> doc.version,
     properties |-> {[name |-> q.name, type |-> q.type, description |-> q.description,
                      is_required |-> q.is_required, is_immutable |-> q.is_immutable] :
                         q \in doc.properties},
     policies |-> doc.policies]

\* SemanticSearchService._convention_to_dict
_convention_to_dict(conv) ==
    [identifier |-> conv.identifier, project |-> conv.project, category |-> conv.category,
     title |-> conv.title, content |-> conv.content,
     example_correct |-> conv.example_correct,
     example_incorrect |-> conv.example_incorrect, version |-> conv.version]

\* a match tagged as a domain document whatever repository returned it
DocumentMatch_of_one_type(family, result) ==
    [document_type |-> DOMAIN_DOCUMENT, document_id |-> result.document.identifier,
     similarity |-> result.similarity,
     content |-> IF family = DOMAIN_DOCUMENT THEN _document_to_dict(result.document)
                 ELSE _convention_to_dict(result.document)]

\* DocumentMatch(document_type, document_id, similarity, content)
DocumentMatch(family, result) ==
    [document_type |-> family, document_id |-> result.document.identifier,
     similarity |-> result.similarity,
     content |-> IF family = DOMAIN_DOCUMENT THEN _document_to_dict(result.document)
                 ELSE _convention_to_dict(result.document)]

\* a sort that puts a match before the matches of equal similarity
insert_before_equal(sorted, match) ==
    LET ahead == SelectSeq(sorted, LAMBDA m : m.similarity > match.similarity)
        behind == SelectSeq(sorted, LAMBDA m : m.similarity <= match.similarity)
    IN ahead \o << match >> \o behind

\* one step of the stable sort: the match goes behind every match that is not
\* less similar, so that equal matches keep the order they were appended in
insert_behind_equal(sorted, match) ==
    LET ahead == SelectSeq(sorted, LAMBDA m : m.similarity >= match.similarity)
        behind == SelectSeq(sorted, LAMBDA m : m.similarity < match.similarity)
    IN ahead \o << match >> \o behind

RECURSIVE sort_by_similarity_reverse(_)
\* matches.sort(key=lambda x: x.similarity, reverse=True)
sort_by_similarity_reverse(matches) ==
    IF matches = << >> THEN << >>
    ELSE insert_behind_equal(sort_by_similarity_reverse(SubSeq(matches, 1, Len(matches) - 1)),
                             matches[Len(matches)])

\* a service returning the merged list whole
truncate_nothing(matches, top_k) == matches

\* matches[:top_k], top_k >= 0
truncate(matches, top_k) ==
    SubSeq(matches, 1, IF top_k < Len(matches) THEN top_k ELSE Len(matches))

\* SearchResult(query, matches, total_count)
SearchResult(query, matches) ==
    [query |-> query, matches |-> matches, total_count |-> Len(matches)]

\* the outcome of caller p's search call: the SearchResult returned (none
\* when the call raised) and, for each repository the call queried, the
\* identifiers of the rows it returned, in the order it returned them
search_response(p, op, query, top_k, similarity_threshold, queried, found, raised) ==
    [caller |-> p, op |-> op, family |-> None, key |-> << >>, identifier |-> 0,
     result |-> 0, raised |-> raised, query |-> query, top_k |-> top_k,
     similarity_threshold |-> similarity_threshold, queried |-> queried, found |-> found]

\* no repository was queried
NoneQueried == [family \in {} |-> << >>]

\* SemanticSearchService.search: the query is embedded, each repository is
\* searched, the results are merged documents first, sorted and cut to top_k.
\* The call reads only, in one step
search(p, query, top_k, similarity_threshold) ==
    /\ free(p)
    /\ LET query_embedding == generate_embedding(query)
       IN IF query_embedding.raised # None
          THEN response' = search_response(p, "search", query, top_k, similarity_threshold,
                                           NoneQueried, << >>, query_embedding.raised)
          ELSE \E domain_ranked \in order_by_distance(
                       searchable(DOMAIN_DOCUMENT, query_embedding.value,
                                  similarity_threshold), query_embedding.value),
                  convention_ranked \in order_by_distance(
                       searchable(PROJECT_CONVENTION, query_embedding.value,
                                  similarity_threshold), query_embedding.value) :
                 LET domain_results == semantic_search_rows(DOMAIN_DOCUMENT,
                                           query_embedding.value, top_k, domain_ranked)
                     convention_results == semantic_search_rows(PROJECT_CONVENTION,
                                           query_embedding.value, top_k, convention_ranked)
                     matches ==
                         [i \in 1..Len(domain_results) |->
                              DocumentMatch(DOMAIN_DOCUMENT, domain_results[i])]
                         \o [i \in 1..Len(convention_results) |->
                              DocumentMatch(PROJECT_CONVENTION, convention_results[i])]
                 IN response' = search_response(p, "search", query, top_k,
                        similarity_threshold,
                        [family \in Families |->
                            LET results == IF family = DOMAIN_DOCUMENT THEN domain_results
                                           ELSE convention_results
                            IN [i \in 1..Len(results) |-> results[i].document.identifier]],
                        << SearchResult(query,
                               truncate(sort_by_similarity_reverse(matches), top_k)) >>,
                        None)
    /\ UNCHANGED <<domain_document, domain_property, domain_policy, project_convention,
                   pc, call, clock, uuids, invoked, _model, loads>>

\* the providers the Container declares
Container == {"config", "db_engine", "db_session_factory", "db_session",
              "document_repository", "document_service",
              "convention_repository", "convention_service"}

\* handler.semantic_search: the tool asks the Container for the search
\* service, which the Container does not declare
semantic_search(p, query, top_k, similarity_threshold) ==
    /\ free(p)
    /\ "semantic_search_service" \notin Container
    /\ response' = search_response(p, "semantic_search", query, top_k,
                                   similarity_threshold, NoneQueried, << >>, AttributeError)
    /\ UNCHANGED <<domain_document, domain_property, domain_policy, project_convention,
                   pc, call, clock, uuids, invoked, _model, loads>>

\* rows of project_convention stored before the behaviour starts, the table
\* carrying the deleted_at and embedding columns the SQL of the repository
\* names: version 1 active and embedded, and version 2 active and embedded,
\* soft-deleted, or not embedded
stored_convention(identifier, version, payload, deleted_at, embedded) ==
    LET key == CHOOSE k \in ConventionKeys : TRUE
        model == new_aggregate(PROJECT_CONVENTION, key, payload, identifier, version, 0)
        entity == to_entity(PROJECT_CONVENTION, model)
    IN [column \in DOMAIN entity \cup {"deleted_at", "embedding"} |->
           IF column = "deleted_at" THEN deleted_at
           ELSE IF column = "embedding"
                THEN IF embedded THEN encode(_create_convention_text(model)) ELSE NoVector
           ELSE entity[column]]

StoredConventions ==
    LET camel == CHOOSE c \in ConventionPayloads : c.example_correct # None
        snake == CHOOSE c \in ConventionPayloads : c.example_correct = None
    IN { {},
         {stored_convention(<<"convention", 1>>, 1, camel, NULL, TRUE),
          stored_convention(<<"convention", 2>>, 2, snake, NULL, TRUE)},
         {stored_convention(<<"convention", 1>>, 1, snake, NULL, TRUE),
          stored_convention(<<"convention", 2>>, 2, camel, 0, TRUE),
          stored_convention(<<"convention", 3>>, 3, camel, NULL, FALSE)} }

InitSearch ==
    /\ domain_document = {}
    /\ domain_property = {}
    /\ domain_policy = {}
    /\ project_convention \in StoredConventions
    /\ pc = [p \in Callers |-> "idle"]
    /\ call = [p \in Callers |-> NoCall]
    /\ response = NoResponse
    /\ clock = 0
    /\ uuids = 0
    /\ invoked = [site \in CallSites |-> 0]
    /\ _model = None
    /\ loads = 0

\* the search operations
SearchOps == {"search", "semantic_search"}

\* one request at a time: up to MaxWrites documents are written or
\* soft-deleted, then the store is searched, through the service or through
\* the tool. A search reads only, the store after it is the store before it:
\* the behaviour ends with its search
NextSearch ==
    \/ \E key \in DocumentKeys, payload \in DocumentPayloads :
            /\ response.op \notin SearchOps /\ CallsMade < MaxWrites
            /\ create_or_update_find_latest(1, DOMAIN_DOCUMENT, key, payload)
    \/ response.op \notin SearchOps /\ create_or_update_save(1)
    \/ response.op \notin SearchOps /\ create_or_update_index(1)
    \/ response.op \notin SearchOps /\ create_or_update_index_failed(1)
    \/ \E key \in DocumentKeys :
            /\ response.op \notin SearchOps /\ CallsMade < MaxWrites
            /\ soft_delete_all_versions_by_logical_key(1, DOMAIN_DOCUMENT, key)
    \/ \E query \in Queries, top_k \in TopKs, similarity_threshold \in Thresholds :
            /\ response.op \notin SearchOps
            /\ search(1, query, top_k, similarity_threshold)
    \/ \E query \in Queries, top_k \in TopKs, similarity_threshold \in Thresholds :
            /\ response.op \notin SearchOps
            /\ semantic_search(1, query, top_k, similarity_threshold)

SpecSearch == InitSearch /\ [][NextSearch]_vars

(* --------------------------- specification ---------------------------- *)
Init ==
    /\ domain_document = {}
    /\ domain_property = {}
    /\ domain_policy = {}
    /\ project_convention = {}
    /\ pc = [p \in Callers |-> "idle"]
    /\ call = [p \in Callers |-> NoCall]
    /\ response = NoResponse
    /\ clock = 0
    /\ uuids = 0
    /\ invoked = [site \in CallSites |-> 0]
    /\ _model = None
    /\ loads = 0

Next ==
    \/ \E p \in Callers, family \in Families :
         \E key \in KeysOf(family), payload \in PayloadsOf(family) :
            create_or_update_find_latest(p, family, key, payload)
    \/ \E p \in Callers : create_or_update_save(p)
    \/ \E p \in Callers : create_or_update_index(p)
    \/ \E p \in Callers : create_or_update_index_failed(p)
    \/ \E p \in Callers, family \in Families : \E key \in KeysOf(family) :
            soft_delete_all_versions_by_logical_key(p, family, key)

Spec == Init /\ [][Next]_vars

\* one request at a time and no soft delete: caller 1 alone runs create_or_update
\* calls to completion, one after the other
NextSuccessive ==
    \/ \E family \in Families : \E key \in KeysOf(family), payload \in PayloadsOf(family) :
            create_or_update_find_latest(1, family, key, payload)
    \/ create_or_update_save(1)
    \/ create_or_update_index(1)
    \/ create_or_update_index_failed(1)

SpecSuccessive == Init /\ [][NextSuccessive]_vars

\* one request at a time, with soft deletes and with saves failing on a
\* storage error
NextSequential ==
    \/ NextSuccessive
    \/ create_or_update_save_failed(1)
    \/ \E family \in Families : \E key \in KeysOf(family) :
            soft_delete_all_versions_by_logical_key(1, family, key)

SpecSequential == Init /\ [][NextSequential]_vars

\* concurrent requests on domain documents of one content: what the read
\* paths return depends on the keys, versions, identifiers and deletion marks
\* of the stored rows, which these requests produce in every combination the
\* requests of Spec do
NextReads ==
    \/ \E p \in Callers, key \in DocumentKeys :
            create_or_update_find_latest(p, DOMAIN_DOCUMENT, key,
                CHOOSE payload \in DocumentPayloads : payload.policies # << >>)
    \/ \E p \in Callers : create_or_update_save(p)
    \/ \E p \in Callers : create_or_update_index(p)
    \/ \E p \in Callers : create_or_update_index_failed(p)
    \/ \E p \in Callers, key \in DocumentKeys :
            soft_delete_all_versions_by_logical_key(p, DOMAIN_DOCUMENT, key)

SpecReads == Init /\ [][NextReads]_vars

\* concurrent requests on domain documents of one content while conventions
\* are stored
SpecWriters == InitSearch /\ [][NextReads]_vars

\* concurrent requests on domain documents of one content under the keys of
\* two projects
NextProjects ==
    \/ \E p \in Callers, key \in AllDocumentKeys :
            create_or_update_find_latest(p, DOMAIN_DOCUMENT, key,
                CHOOSE payload \in DocumentPayloads : payload.policies # << >>)
    \/ \E p \in Callers : create_or_update_save(p)
    \/ \E p \in Callers : create_or_update_index(p)
    \/ \E p \in Callers : create_or_update_index_failed(p)
    \/ \E p \in Callers, key \in AllDocumentKeys :
            soft_delete_all_versions_by_logical_key(p, DOMAIN_DOCUMENT, key)

SpecProjects == Init /\ [][NextProjects]_vars

\* Repository.save of either family called on its own with a new aggregate of
\* any version: the INSERT of the row and, for a document, of its child rows,
\* in one transaction; the call returns, or raises on a constraint
save(p, family, key, payload, version) ==
    /\ accepts(p)
    /\ clock' = clock + 1
    /\ uuids' = uuids + 1
    /\ LET model == new_aggregate(family, key, payload, uuid4, version, clock')
           entity == to_entity(family, model)
       IN IF violates_constraints(family, entity)
          THEN /\ response' = [caller |-> p, op |-> "save", family |-> family, key |-> key,
                               identifier |-> model.identifier, result |-> version,
                               raised |-> IntegrityError, aggregate |-> model]
               /\ UNCHANGED <<domain_document, domain_property, domain_policy,
                              project_convention>>
          ELSE /\ response' = [caller |-> p, op |-> "save", family |-> family, key |-> key,
                               identifier |-> model.identifier, result |-> version,
                               raised |-> None, aggregate |-> model]
               /\ IF family = DOMAIN_DOCUMENT
                  THEN /\ domain_document' = insert(family, entity)
                       /\ domain_property' = domain_property
                                                  \cup property_entities(model, clock')
                       /\ domain_policy' = domain_policy \cup policy_entities(model, clock')
                       /\ UNCHANGED project_convention
                  ELSE /\ project_convention' = insert(family, entity)
                       /\ UNCHANGED <<domain_document, domain_property, domain_policy>>
    /\ UNCHANGED <<pc, call, invoked, _model, loads>>

\* EmbeddingService.create_embedding_for_document called with a document that
\* carries the identifier of a version and the content the caller gives it:
\* the text is projected, embedded and stored by update_embedding, whose
\* UPDATE matches no row when the identifier is not stored
create_embedding_for_document(p, identifier, key, payload) ==
    /\ free(p)
    /\ LET document == new_aggregate(DOMAIN_DOCUMENT, key, payload, identifier, 1, clock)
           embedding == generate_embedding(_create_document_text(document))
           prior == {r.embedding : r \in {q \in domain_document :
                                              q.identifier = identifier}}
       IN /\ embedding.raised = None
          /\ domain_document' = update_embedding(domain_document, identifier,
                                                 embedding.value, clock)
          /\ response' = [caller |-> p, op |-> "create_embedding",
                          family |-> DOMAIN_DOCUMENT, key |-> key,
                          identifier |-> identifier, result |-> 0, raised |-> None,
                          embedding |-> embedding.value, prior |-> prior]
    /\ UNCHANGED <<domain_property, domain_policy, project_convention,
                   pc, call, clock, uuids, invoked, _model, loads>>

\* versions of one domain document are written one request at a time, and
\* versions are indexed again with either content
NextIndexing ==
    LET key == <<"Ttutta", "Auth", "User">>
    IN \/ create_or_update_find_latest(1, DOMAIN_DOCUMENT, key,
              CHOOSE payload \in DocumentPayloads : payload.policies # << >>)
       \/ create_or_update_save(1)
       \/ create_or_update_index(1)
       \/ create_or_update_index_failed(1)
       \/ \E identifier \in 1..uuids : \E payload \in DocumentPayloads :
              create_embedding_for_document(1, identifier, key, payload)

SpecIndexing == Init /\ [][NextIndexing]_vars

\* rows of table domain_relationship: create_or_update builds every document
\* with dependencies=[] and save adds property and policy rows only, so no
\* operation stores a relationship
domain_relationship == {}

\* the two texts analyze_impact formats around the domain name
ReferencedBy == [text |-> "referenced by", dependents |-> <<"Order", "AuthLog">>]
NotReferenced == [text |-> "no referencing domain found", dependents |-> << >>]

\* handler.analyze_impact: the placeholder compares its arguments with one
\* fixed logical key and queries nothing
analyze_impact(project_name, service_name, domain_name) ==
    IF domain_name = "User" /\ project_name = "Ttutta" /\ service_name = "Auth"
    THEN [domain |-> domain_name, message |-> ReferencedBy]
    ELSE [domain |-> domain_name, message |-> NotReferenced]

\* the embedding_service argument of the DocumentService and ConventionService
\* that the Container builds: the factories pass the repository only, so the
\* constructor's default stays
_embedding_service ==
    IF "embedding_service" \in Container THEN "embedding_service" ELSE None

\* create_or_update after the save, in a service without embedding service:
\* `if self._embedding_service:` skips the indexing and the call returns the
\* saved aggregate; the response records the indexing attempts the call made
create_or_update_return(p) ==
    /\ pc[p] = "saved"
    /\ _embedding_service = None
    /\ pc' = [pc EXCEPT ![p] = "idle"]
    /\ call' = [call EXCEPT ![p] = NoCall]
    /\ response' = [caller |-> p, op |-> "create_or_update", family |-> call[p].family,
                    key |-> call[p].key, identifier |-> call[p].model[1].identifier,
                    result |-> call[p].model[1].version, raised |-> None,
                    indexing_attempts |-> 0]
    /\ UNCHANGED <<domain_document, domain_property, domain_policy, project_convention,
                   clock, uuids, invoked, _model, loads>>

\* the create_or_update tools of the handler, served by the services of the
\* Container, one request at a time
NextContainer ==
    \/ \E family \in Families : \E key \in KeysOf(family), payload \in PayloadsOf(family) :
            create_or_update_find_latest(1, family, key, payload)
    \/ create_or_update_save(1)
    \/ create_or_update_return(1)

SpecContainer == Init /\ [][NextContainer]_vars

\* scripts/generate_embeddings_batch.py, main: generate_embeddings_for_documents
\* takes the document repository and then the embedding service from the
\* Container, which declares none; the AttributeError leaves the function
\* before it reads a row, main catches it as a fatal error and returns 1. The
\* response records the counters, the rows indexed and the non-deleted rows
\* that had no embedding when the script started
main(p) ==
    /\ free(p)
    /\ "embedding_service" \notin Container
    /\ response' = [caller |-> p, op |-> "main", family |-> None, key |-> << >>,
                    identifier |-> 0, result |-> 0, raised |-> AttributeError,
                    exit_status |-> 1, processed |-> 0, success |-> 0, failed |-> 0,
                    indexed |-> {},
                    without_embedding |->
                        {r.identifier : r \in {e \in domain_document :
                            e.deleted_at = NULL /\ e.embedding = NoVector}}]
    /\ UNCHANGED <<domain_document, domain_property, domain_policy, project_convention,
                   pc, call, clock, uuids, invoked, _model, loads>>

\* the create_or_update tools of the handler and the batch script, run one
\* after the other on one store
NextBatch ==
    \/ \E family \in Families : \E key \in KeysOf(family), payload \in PayloadsOf(family) :
            create_or_update_find_latest(1, family, key, payload)
    \/ create_or_update_save(1)
    \/ create_or_update_return(1)
    \/ main(1)

SpecBatch == Init /\ [][NextBatch]_vars

\* the orders in which a SELECT without ORDER BY may return the rows
unordered(rows) ==
    {seq \in [1..Cardinality(rows) -> rows] :
        \A i, j \in 1..Cardinality(rows) : i # j => seq[i] # seq[j]}

\* entity.properties: the relationship of DomainDocumentEntity to its property
\* rows declares no order_by, so the rows are loaded in any order
entity_properties(identifier) ==
    unordered({q \in domain_property : q.domain_identifier = identifier})

\* DocumentRepository.find_by_identifier with the list of properties that
\* to_domain builds from entity.properties, in the order of the loaded rows
find_by_identifier_call(p, identifier) ==
    /\ free(p)
    /\ LET found == find_by_identifier(DOMAIN_DOCUMENT, identifier)
       IN /\ found.value # << >>
          /\ \E rows \in entity_properties(identifier) :
                response' = [caller |-> p, op |-> "find_by_identifier",
                             family |-> DOMAIN_DOCUMENT, identifier |-> identifier,
                             raised |-> None, result |-> found.value[1].version,
                             properties |-> [i \in 1..Len(rows) |-> DomainProperty(rows[i])]]
    /\ UNCHANGED <<domain_document, domain_property, domain_policy, project_convention,
                   pc, call, clock, uuids, invoked, _model, loads>>

\* the repositories alone: aggregates of both families are saved and documents
\* are read back, one call after the other
NextRepository ==
    \/ \E family \in Families : \E key \in KeysOf(family), payload \in PayloadsOf(family) :
          \E version \in 1..MaxCalls : save(1, family, key, payload, version)
    \/ \E identifier \in 1..uuids : find_by_identifier_call(1, identifier)

SpecRepository == Init /\ [][NextRepository]_vars

\* the characters of the texts handed to the adapter: two kinds of whitespace
\* and a letter
Alphabet == {" ", "\t", "a"}

RECURSIVE concat(_)
\* "".join(characters)
concat(characters) ==
    IF characters = << >> THEN "" ELSE characters[1] \o concat(Tail(characters))

\* every text over the alphabet up to the longest length
Texts ==
    UNION {{concat(characters) : characters \in [1..n -> Alphabet]} : n \in 0..MaxTextLen}

\* SentenceTransformerAdapter.MODEL_NAME
MODEL_NAME == "paraphrase-multilingual-MiniLM-L12-v2"

\* a generate_embedding that validates the text before it loads the model
generate_validating_first(p, text) ==
    /\ free(p)
    /\ LET embedding == generate_embedding(text)
       IN /\ _model' = IF embedding.raised = None THEN MODEL_NAME ELSE _model
          /\ loads' = IF embedding.raised = None /\ _model = None THEN loads + 1 ELSE loads
          /\ response' = [caller |-> p, op |-> "generate_embedding", family |-> None,
                          key |-> << >>, identifier |-> 0, result |-> 0,
                          raised |-> embedding.raised, text |-> text,
                          embedding |-> IF embedding.raised = None
                                        THEN << embedding.value >> ELSE << >>]
    /\ UNCHANGED <<domain_document, domain_property, domain_policy, project_convention,
                   pc, call, clock, uuids, invoked>>

\* a call of SentenceTransformerAdapter.generate_embedding on its own, no other
\* call of the adapter running: _load_model, then the vector returned, or the
\* error raised
generate(p, text) ==
    /\ free(p)
    /\ _model' = MODEL_NAME
    /\ loads' = IF _model = None THEN loads + 1 ELSE loads
    /\ LET embedding == generate_embedding(text)
       IN response' = [caller |-> p, op |-> "generate_embedding", family |-> None,
                       key |-> << >>, identifier |-> 0, result |-> 0,
                       raised |-> embedding.raised, text |-> text,
                       embedding |-> IF embedding.raised = None
                                     THEN << embedding.value >> ELSE << >>]
    /\ UNCHANGED <<domain_document, domain_property, domain_policy, project_convention,
                   pc, call, clock, uuids, invoked>>

\* properties and policies of the documents whose text is projected
Properties ==
    { [name |-> "email", type |-> "String", description |-> "user email",
       is_required |-> TRUE, is_immutable |-> FALSE],
      [name |-> "name", type |-> "String", description |-> "display name",
       is_required |-> FALSE, is_immutable |-> FALSE],
      [name |-> "id", type |-> "Int", description |-> "key",
       is_required |-> TRUE, is_immutable |-> TRUE] }

Policies ==
    { [category |-> "PERMISSION", subject |-> "ADMIN", content |-> "admin only"],
      [category |-> "RULE", subject |-> "VERSION", content |-> "no reuse"] }

\* the lists of up to MaxItems different members of a set
lists_of(items) ==
    UNION {{list \in [1..n -> items] : \A i, j \in 1..n : i # j => list[i] # list[j]} :
               n \in 0..MaxItems}

\* examples of a convention: Optional[str], absent, empty or given
Examples == {None, "", "userName", "user_name"}

\* EmbeddingService._create_document_text applied to a document on its own
create_document_text(p, key, properties, policies) ==
    /\ free(p)
    /\ LET doc == new_aggregate(DOMAIN_DOCUMENT, key,
                      [summary |-> "user accounts", properties |-> properties,
                       policies |-> policies], 0, 1, 0)
       IN response' = [caller |-> p, op |-> "_create_document_text",
                       family |-> DOMAIN_DOCUMENT, key |-> key, identifier |-> 0,
                       result |-> 0, raised |-> None, aggregate |-> doc,
                       text |-> _create_document_text(doc)]
    /\ UNCHANGED <<domain_document, domain_property, domain_policy, project_convention,
                   pc, call, clock, uuids, invoked, _model, loads>>

\* EmbeddingService._create_convention_text applied to a convention on its own
create_convention_text(p, key, example_correct, example_incorrect) ==
    /\ free(p)
    /\ LET conv == new_aggregate(PROJECT_CONVENTION, key,
                       [content |-> "use camelCase", example_correct |-> example_correct,
                        example_incorrect |-> example_incorrect], 0, 1, 0)
       IN response' = [caller |-> p, op |-> "_create_convention_text",
                       family |-> PROJECT_CONVENTION, key |-> key, identifier |-> 0,
                       result |-> 0, raised |-> None, aggregate |-> conv,
                       text |-> _create_convention_text(conv)]
    /\ UNCHANGED <<domain_document, domain_property, domain_policy, project_convention,
                   pc, call, clock, uuids, invoked, _model, loads>>

\* the text projection alone, applied to documents and conventions
NextProjection ==
    \/ \E key \in DocumentKeys, properties \in lists_of(Properties),
             policies \in lists_of(Policies) :
            create_document_text(1, key, properties, policies)
    \/ \E key \in ConventionKeys, example_correct \in Examples,
             example_incorrect \in Examples :
            create_convention_text(1, key, example_correct, example_incorrect)

SpecProjection == Init /\ [][NextProjection]_vars

\* the adapter alone, called with every text
NextEmbedding == \E text \in Texts : generate(1, text)

SpecEmbedding == Init /\ [][NextEmbedding]_vars

\* generate_embedding called on the shared adapter, first step: _load_model
\* tests "self._model is None"; the caller goes on to construct the model, or
\* finds it loaded
generate_embedding_enter(p, text) ==
    /\ accepts(p)
    /\ clock' = clock + 1
    /\ pc' = [pc EXCEPT ![p] = IF _model = None THEN "loading" ELSE "loaded"]
    /\ call' = [call EXCEPT ![p] = [family |-> None, key |-> << >>, model |-> << >>,
                                     text |-> text]]
    /\ UNCHANGED <<domain_document, domain_property, domain_policy, project_convention,
                   response, uuids, invoked, _model, loads>>

\* _load_model, second step: self._model = SentenceTransformer(MODEL_NAME), by
\* every caller that found the model missing
_load_model(p) ==
    /\ pc[p] = "loading"
    /\ _model' = MODEL_NAME
    /\ loads' = loads + 1
    /\ pc' = [pc EXCEPT ![p] = "loaded"]
    /\ UNCHANGED <<domain_document, domain_property, domain_policy, project_convention,
                   call, response, clock, uuids, invoked>>

\* generate_embedding, after _load_model: the text is validated and encoded,
\* and the call returns
generate_embedding_return(p) ==
    /\ pc[p] = "loaded"
    /\ LET embedding == generate_embedding(call[p].text)
       IN response' = [caller |-> p, op |-> "generate_embedding", family |-> None,
                       key |-> << >>, identifier |-> 0, result |-> 0,
                       raised |-> embedding.raised, text |-> call[p].text,
                       embedding |-> IF embedding.raised = None
                                     THEN << embedding.value >> ELSE << >>]
    /\ pc' = [pc EXCEPT ![p] = "idle"]
    /\ call' = [call EXCEPT ![p] = NoCall]
    /\ UNCHANGED <<domain_document, domain_property, domain_policy, project_convention,
                   clock, uuids, invoked, _model, loads>>

\* one adapter shared by concurrent callers
NextLoad ==
    \/ \E p \in Callers, text \in Queries : generate_embedding_enter(p, text)
    \/ \E p \in Callers : _load_model(p)
    \/ \E p \in Callers : generate_embedding_return(p)

SpecLoad == Init /\ [][NextLoad]_vars

(* ------------------------------ properties ---------------------------- *)
\* every stored row of a logical key, soft-deleted ones included
rows_of(family, key) == {r \in TableOf(family) : LogicalKey(family, r) = key}

active_rows_of(family, key) == {r \in rows_of(family, key) : r.deleted_at = NULL}

max_version(rows) ==
    IF rows = {} THEN 0 ELSE CHOOSE v \in {r.version : r \in rows} :
                                  \A r \in rows : r.version <= v

\* every create_or_update call started on the key has passed its save
past_save(family, key) ==
    /\ invoked[<<family, key>>] > 0
    /\ \A p \in Callers :
          pc[p] = "constructed" => <<call[p].family, call[p].key>> # <<family, key>>

\* C1: with successive calls and no delete, once the Nth create_or_update on a
\* logical key K of either family has passed its save, a row of K with version
\* N is stored (N = 1 for the first call).
C1_NthCallStoresVersionN ==
    \A family \in Families : \A key \in KeysOf(family) :
        past_save(family, key) =>
            \E r \in rows_of(family, key) : r.version = invoked[<<family, key>>]

\* the part of C1 that concerns domain documents only
C1_DocumentsOnly ==
    /\ \A key \in DocumentKeys :
          past_save(DOMAIN_DOCUMENT, key) =>
              \E r \in rows_of(DOMAIN_DOCUMENT, key) :
                  r.version = invoked[<<DOMAIN_DOCUMENT, key>>]
    /\ response.family = DOMAIN_DOCUMENT => response.raised = None

\* C2: the version number create_or_update computes for K is 1 + the maximum
\* version over all stored rows of K, soft-deleted rows included.
C2_ComputesMaxOfAllRowsPlusOne ==
    [][\A p \in Callers :
          (pc[p] # "constructed" /\ pc'[p] = "constructed") =>
              call'[p].model[1].version
                  = 1 + max_version(rows_of(call'[p].family, call'[p].key))]_vars

\* the four tables
tables == <<domain_document, domain_property, domain_policy, project_convention>>

\* caller p's save transaction takes place in this step
save_step(p) == pc[p] = "constructed" /\ pc'[p] # "constructed"

\* no two stored rows share a logical key and a version
unique_versions ==
    \A family \in Families : \A r1, r2 \in TableOf(family) :
        (LogicalKey(family, r1) = LogicalKey(family, r2) /\ r1.version = r2.version)
            => r1 = r2

\* C3: a save of a version number that is already stored for the logical key
\* (the other writer read the same latest version and inserted first) fails
\* with a conflict error and leaves every table as it was, so that a logical
\* key never holds two rows of one version.
C3_ConflictingWriteFailsWithoutOverwrite ==
    [][\A p \in Callers :
          save_step(p) =>
              /\ (\E r \in rows_of(call[p].family, call[p].key) :
                        r.version = call[p].model[1].version)
                    => /\ pc'[p] = "idle"
                       /\ response'.caller = p
                       /\ response'.raised = IntegrityError
                       /\ tables' = tables
              /\ unique_versions']_vars

\* C3 witness: two calls on one logical key computed the same version number;
\* one stored it as the key's active row, the other raised the conflict error
C3_Witness ==
    /\ response.op = "create_or_update"
    /\ response.raised = IntegrityError
    /\ \E r \in active_rows_of(response.family, response.key) :
          /\ r.version = response.result
          /\ r.identifier # response.identifier

\* C4: the version numbers stored for a logical key are exactly 1..N, each
\* once, whatever the interleaving of writers and soft deletes.
C4_VersionsAreDense ==
    \A family \in Families : \A key \in KeysOf(family) :
        LET rows == rows_of(family, key)
        IN /\ {r.version : r \in rows} = 1..Cardinality(rows)
           /\ Cardinality({r.version : r \in rows}) = Cardinality(rows)

\* C4 witness: a key with several versions, soft-deleted and active ones (a
\* writer inserted after a soft delete what it had computed before it)
C4_Witness ==
    \E key \in DocumentKeys :
        /\ Cardinality(rows_of(DOMAIN_DOCUMENT, key)) >= 2
        /\ \E r \in rows_of(DOMAIN_DOCUMENT, key) : r.deleted_at # NULL
        /\ \E r \in rows_of(DOMAIN_DOCUMENT, key) : r.deleted_at = NULL

\* the identifiers of all version rows of both families
identifiers == {r.identifier : r \in domain_document \cup project_convention}

\* C5: a successful save adds exactly one version row, with an identifier no
\* stored row has, and the child rows of that identifier only; every row stored
\* before is still there unchanged, and no two rows share an identifier.
C5_SaveInsertsOneFreshRow ==
    [][\A p \in Callers :
          (save_step(p) /\ pc'[p] = "saved") =>
              LET family == call[p].family
                  model == call[p].model[1]
                  added == TableOf(family)' \ TableOf(family)
              IN /\ TableOf(family) \subseteq TableOf(family)'
                 /\ Cardinality(added) = 1
                 /\ \A r \in added :
                       /\ r.identifier = model.identifier
                       /\ r.identifier \notin identifiers
                       /\ r.version = model.version
                       /\ LogicalKey(family, r) = call[p].key
                 /\ domain_property \subseteq domain_property'
                 /\ domain_policy \subseteq domain_policy'
                 /\ family = DOMAIN_DOCUMENT =>
                       /\ \A c \in domain_property' \ domain_property :
                             c.domain_identifier = model.identifier
                       /\ \A c \in domain_policy' \ domain_policy :
                             c.domain_identifier = model.identifier
                       /\ Cardinality(domain_property' \ domain_property)
                             = Len(model.properties)
                       /\ Cardinality(domain_policy' \ domain_policy)
                             = Len(model.policies)
                 /\ Cardinality(identifiers') = Cardinality(domain_document')
                                                   + Cardinality(project_convention')]_vars

\* C5 witness: a second version of a key was saved with child rows, next to
\* the first version
C5_Witness ==
    \E r1, r2 \in domain_document :
        /\ LogicalKey(DOMAIN_DOCUMENT, r1) = LogicalKey(DOMAIN_DOCUMENT, r2)
        /\ r1.version = 1 /\ r2.version = 2
        /\ r1.identifier # r2.identifier
        /\ \E c \in domain_property : c.domain_identifier = r2.identifier
        /\ \E c \in domain_property : c.domain_identifier = r1.identifier

\* a stored row keeps its place: the next state holds a row of the same
\* identifier that differs from it in the given columns at most
kept_except(family, r, columns) ==
    \E r2 \in TableOf(family)' :
        /\ r2.identifier = r.identifier
        /\ \A column \in EntityOf(family) \ columns :
              \/ column \notin DOMAIN r
              \/ r2[column] = r[column]

child_rows_kept ==
    /\ domain_property \subseteq domain_property'
    /\ domain_policy \subseteq domain_policy'

\* C6 as stated: no step changes a stored row in anything but deleted_at and
\* embedding (updated_at included among the fields that stay as written).
C6_OnlyDeletedAtAndEmbeddingChange ==
    [][/\ \A family \in Families : \A r \in TableOf(family) :
             kept_except(family, r, {"deleted_at", "embedding"})
       /\ child_rows_kept]_vars

\* C6 amended: no step changes a stored row in anything but deleted_at,
\* embedding and updated_at; identifier, logical key, version, content fields
\* (child rows included) and created_at stay as written.
C6_OnlyDeletedAtEmbeddingUpdatedAtChange ==
    [][/\ \A family \in Families : \A r \in TableOf(family) :
             kept_except(family, r, {"deleted_at", "embedding", "updated_at"})
       /\ child_rows_kept]_vars

\* C6 witness: a row that was indexed and soft-deleted after it was written
C6_Witness ==
    \E r \in domain_document :
        /\ r.deleted_at # NULL
        /\ r.embedding # NoVector
        /\ r.updated_at # r.created_at

\* C7: find_latest_by_logical_key(K) returns the non-deleted row of K with the
\* maximum version, and absent exactly when K has no non-deleted row.
find_latest_is_max_active(family, key) ==
    LET latest == find_latest_by_logical_key(family, key)
        active == active_rows_of(family, key)
    IN /\ latest.raised = None
       /\ (latest.value = << >>) <=> (active = {})
       /\ latest.value # << >> =>
             \E r \in active :
                 /\ r.identifier = latest.value[1].identifier
                 /\ r.version = latest.value[1].version
                 /\ \A o \in active : o.version <= r.version

C7_FindLatestReturnsMaxActive ==
    \A family \in Families : \A key \in KeysOf(family) :
        find_latest_is_max_active(family, key)

\* the part of C7 that concerns domain documents only
C7_DocumentsOnly ==
    \A key \in DocumentKeys : find_latest_is_max_active(DOMAIN_DOCUMENT, key)

\* C8: find_all_versions_by_logical_key(K) returns all and only the non-deleted
\* rows of K, each once, in strictly descending version order (so N entries of
\* versions N..1 after N successive writes and no delete).
find_all_is_active_descending(family, key) ==
    LET versions == find_all_versions_by_logical_key(family, key)
        active == active_rows_of(family, key)
    IN /\ versions.raised = None
       /\ Len(versions.value) = Cardinality(active)
       /\ {versions.value[i].identifier : i \in 1..Len(versions.value)}
             = {r.identifier : r \in active}
       /\ \A i \in 1..(Len(versions.value) - 1) :
             versions.value[i].version > versions.value[i + 1].version

C8_FindAllVersionsActiveDescending ==
    \A family \in Families : \A key \in KeysOf(family) :
        find_all_is_active_descending(family, key)

\* the part of C8 that concerns domain documents only
C8_DocumentsOnly ==
    \A key \in DocumentKeys : find_all_is_active_descending(DOMAIN_DOCUMENT, key)

\* a soft delete takes place in this step: a request is accepted and completes
\* at once, no create_or_update call moving
soft_delete_step == clock' # clock /\ pc' = pc /\ response'.op = "soft_delete"

\* C9: soft_delete_all_versions_by_logical_key on a domain-document key returns
\* the number of rows of the key that were not deleted, leaves none of them
\* active, so that find_latest_by_logical_key returns absent; when no row of
\* the key was active (repeated call, unknown key) it returns 0 and changes no
\* table.
C9_SoftDeleteIdempotent ==
    [][\A key \in DocumentKeys :
          (/\ soft_delete_step
           /\ response'.family = DOMAIN_DOCUMENT
           /\ response'.key = key) =>
              LET active == active_rows_of(DOMAIN_DOCUMENT, key)
              IN /\ response'.raised = None
                 /\ response'.result = Cardinality(active)
                 /\ active_rows_of(DOMAIN_DOCUMENT, key)' = {}
                 /\ {r.identifier : r \in domain_document'}
                       = {r.identifier : r \in domain_document}
                 /\ find_latest_by_logical_key(DOMAIN_DOCUMENT, key)' = Returned(<< >>)
                 /\ active = {} => (response'.result = 0 /\ tables' = tables)]_vars

\* C9 witness: a soft delete that returned 0 on a key whose versions an
\* earlier soft delete had marked
C9_Witness ==
    /\ response.op = "soft_delete" /\ response.family = DOMAIN_DOCUMENT
    /\ response.raised = None /\ response.result = 0
    /\ rows_of(DOMAIN_DOCUMENT, response.key) # {}
    /\ \A r \in rows_of(DOMAIN_DOCUMENT, response.key) :
          r.deleted_at # NULL /\ r.deleted_at < clock

\* C10: the rows of a domain-document key are never partly deleted and partly
\* active.
C10_AllOrNothingPerKey ==
    \A key \in DocumentKeys :
        \/ active_rows_of(DOMAIN_DOCUMENT, key) = {}
        \/ active_rows_of(DOMAIN_DOCUMENT, key) = rows_of(DOMAIN_DOCUMENT, key)

\* the projects of the logical keys
Projects == {key[1] : key \in DocumentKeys \cup ConventionKeys}

\* the identifiers of the stored rows whose deleted_at is set
deleted_identifiers ==
    {r.identifier : r \in {e \in domain_document \cup project_convention :
                              "deleted_at" \in DOMAIN e /\ e.deleted_at # NULL}}

\* the identifiers of the aggregates a lookup returned (none when it raised)
returned_identifiers(found) ==
    IF found.raised # None THEN {}
    ELSE {found.value[i].identifier : i \in 1..Len(found.value)}

\* the same for a lookup whose result is given as a set
returned_identifiers_unordered(found) ==
    IF found.raised # None THEN {} ELSE {m.identifier : m \in found.value}

\* everything the active read paths return in the current state, over all
\* arguments
active_reads ==
    UNION ( {returned_identifiers(find_by_identifier(family, identifier)) :
                 family \in Families, identifier \in 1..uuids}
            \cup {returned_identifiers(find_by_full_name(key, version)) :
                 key \in DocumentKeys, version \in 1..MaxCalls}
            \cup {returned_identifiers(find_latest_by_logical_key(DOMAIN_DOCUMENT, key)) :
                 key \in DocumentKeys}
            \cup {returned_identifiers(find_all_versions_by_logical_key(DOMAIN_DOCUMENT, key)) :
                 key \in DocumentKeys}
            \cup {returned_identifiers(find_all_latest_by_project(project)) :
                 project \in Projects}
            \cup {returned_identifiers_unordered(find_all_by_project(family, project)) :
                 family \in Families, project \in Projects} )

\* C11: a soft-deleted version stays stored (no step removes a stored row), and
\* none of the active read paths (find_by_identifier, find_by_full_name,
\* find_latest_by_logical_key, find_all_versions_by_logical_key,
\* find_all_latest_by_project, find_all_by_project / find_by_project) returns a
\* row whose deleted_at is set, whatever its arguments.
C11_DeletedRowsStoredButNotRead ==
    /\ [](active_reads \cap deleted_identifiers = {})
    /\ [][/\ identifiers \subseteq identifiers'
          /\ deleted_identifiers \subseteq deleted_identifiers']_vars

\* C11 witness: a key holds a soft-deleted version that the lookups by
\* identifier and by full name do not return, next to an active version that
\* they do return
C11_Witness ==
    \E deleted, active \in domain_document :
        /\ LogicalKey(DOMAIN_DOCUMENT, deleted) = LogicalKey(DOMAIN_DOCUMENT, active)
        /\ deleted.deleted_at # NULL /\ active.deleted_at = NULL
        /\ find_by_identifier(DOMAIN_DOCUMENT, deleted.identifier) = Returned(<< >>)
        /\ find_by_full_name(LogicalKey(DOMAIN_DOCUMENT, deleted), deleted.version)
              = Returned(<< >>)
        /\ returned_identifiers(find_by_identifier(DOMAIN_DOCUMENT, active.identifier))
              = {active.identifier}
        /\ returned_identifiers_unordered(find_all_by_project(DOMAIN_DOCUMENT, active.project))
              = {active.identifier}

\* the rows of the family's table after the step
TableAfter(family) ==
    IF family = DOMAIN_DOCUMENT THEN domain_document' ELSE project_convention'

\* caller p's create_or_update call ends in this step with no vector stored
\* for the version it saved: the embedding generation or the embedding UPDATE
\* failed, or no embedding service is wired
index_failed_step(p) ==
    /\ pc[p] = "saved" /\ pc'[p] = "idle"
    /\ \A r \in TableAfter(call[p].family) :
          r.identifier = call[p].model[1].identifier => r.embedding = NoVector

\* C12: when the indexing of a create_or_update fails, the call still returns
\* the saved aggregate without raising, the new version row stays stored with
\* no embedding, and no table changes (nothing is rolled back or removed).
C12_IndexFailureKeepsTheWrite ==
    [][\A p \in Callers :
          index_failed_step(p) =>
              /\ response'.caller = p
              /\ response'.raised = None
              /\ response'.identifier = call[p].model[1].identifier
              /\ response'.result = call[p].model[1].version
              /\ \E r \in TableAfter(call[p].family) :
                    /\ r.identifier = call[p].model[1].identifier
                    /\ r.version = call[p].model[1].version
                    /\ r.embedding = NoVector
              /\ tables' = tables]_vars

\* C12 witness: a create_or_update returned a version that is stored without
\* an embedding, next to an indexed earlier version of the same key
C12_Witness ==
    /\ response.op = "create_or_update" /\ response.raised = None
    /\ \E r, o \in rows_of(response.family, response.key) :
          /\ r.identifier = response.identifier /\ r.embedding = NoVector
          /\ o.version < r.version /\ o.embedding # NoVector

\* no child row without its parent row
no_orphan_child_rows ==
    \A c \in domain_property \cup domain_policy :
        \E r \in domain_document : r.identifier = c.domain_identifier

\* every document row has the child rows that were declared with it, as far as
\* its content fields tell: a row written from a payload with properties has
\* property rows
no_childless_parent_rows ==
    \A r \in domain_document :
        \A payload \in DocumentPayloads :
            r.summary = payload.summary =>
                /\ Cardinality({c \in domain_property : c.domain_identifier = r.identifier})
                      = Len(payload.properties)
                /\ Cardinality({c \in domain_policy : c.domain_identifier = r.identifier})
                      = Len(payload.policies)

search_returned == response.op = "search" /\ response.raised = None

\* the matches of the SearchResult the last search call returned
returned_matches == response.found[1].matches

\* the stored row a match was made of
row_of(match) ==
    CHOOSE r \in TableOf(match.document_type) : r.identifier = match.document_id

\* the stored rows the search could return: non-deleted and embedded, of
\* either family, each with its similarity to the query of the last search
eligible_rows ==
    {r \in embedded_active(DOMAIN_DOCUMENT) \cup embedded_active(PROJECT_CONVENTION) :
        similarity_of(r.embedding, encode(response.query)) > response.similarity_threshold}

C15_AtMostTopKMatches ==
    search_returned =>
        /\ Len(returned_matches) <= response.top_k
        /\ response.found[1].total_count = Len(returned_matches)

\* C15 witness: a search returned exactly top_k > 0 matches while each family
\* alone stored top_k eligible rows
C15_Witness ==
    /\ search_returned
    /\ response.top_k > 0
    /\ Len(returned_matches) = response.top_k
    /\ \A family \in Families :
          Cardinality({r \in eligible_rows : r \in TableOf(family)}) >= response.top_k

\* the place of a match in the list its repository returned
place_in_results(match) ==
    CHOOSE i \in 1..Len(response.queried[match.document_type]) :
        response.queried[match.document_type][i] = match.document_id

\* C16: the matches a search returns are in non-increasing order of
\* similarity; of two matches of equal similarity a document match comes
\* before a convention match, and two matches of one family come in the order
\* in which their repository returned them.
C16_SortedDescendingStable ==
    search_returned =>
        \A i, j \in 1..Len(returned_matches) :
            i < j =>
                LET first == returned_matches[i]
                    second == returned_matches[j]
                IN /\ first.similarity >= second.similarity
                   /\ first.similarity = second.similarity =>
                         /\ ~ (first.document_type = PROJECT_CONVENTION
                                 /\ second.document_type = DOMAIN_DOCUMENT)
                         /\ first.document_type = second.document_type =>
                               place_in_results(first) < place_in_results(second)

\* C16 witness: a search returned a document match and, behind it, a
\* convention match of the same similarity
C16_Witness ==
    /\ search_returned
    /\ \E i, j \in 1..Len(returned_matches) :
          /\ i < j
          /\ returned_matches[i].similarity = returned_matches[j].similarity
          /\ returned_matches[i].document_type = DOMAIN_DOCUMENT
          /\ returned_matches[j].document_type = PROJECT_CONVENTION

\* the stored rows a search returned
returned_rows == {row_of(returned_matches[i]) : i \in 1..Len(returned_matches)}

\* C17: a search returns min(top_k, number of eligible rows) distinct eligible
\* rows of the two families, and no eligible row left out is more similar to
\* the query than a returned one: the similarities returned are the top_k
\* highest among all eligible rows.
C17_PerFamilyLimitLosesNothing ==
    search_returned =>
        /\ Len(returned_matches)
              = IF response.top_k < Cardinality(eligible_rows)
                THEN response.top_k ELSE Cardinality(eligible_rows)
        /\ Cardinality(returned_rows) = Len(returned_matches)
        /\ returned_rows \subseteq eligible_rows
        /\ \A r \in eligible_rows \ returned_rows :
              \A i \in 1..Len(returned_matches) :
                  returned_matches[i].similarity
                      >= similarity_of(r.embedding, encode(response.query))

\* C17 witness: a search with top_k > 0 returned top_k matches while one
\* family alone stored more than top_k eligible rows and the other family
\* stored eligible rows as well
C17_Witness ==
    /\ search_returned
    /\ response.top_k > 0
    /\ Len(returned_matches) = response.top_k
    /\ \E family \in Families :
          /\ Cardinality(eligible_rows \cap TableOf(family)) > response.top_k
          /\ eligible_rows \ TableOf(family) # {}

\* C18: no match of a search is a soft-deleted row or a row without a stored
\* embedding, whatever was created, indexed and soft-deleted before.
C18_NoDeletedOrUnembeddedMatch ==
    search_returned =>
        \A i \in 1..Len(returned_matches) :
            /\ \E r \in TableOf(returned_matches[i].document_type) :
                  r.identifier = returned_matches[i].document_id
            /\ row_of(returned_matches[i]).deleted_at = NULL
            /\ row_of(returned_matches[i]).embedding # NoVector

\* C18 witness: a search returned matches while the store held a document
\* that was indexed and then soft-deleted, similar enough to the query, and a
\* non-deleted row without embedding
C18_Witness ==
    /\ search_returned
    /\ returned_matches # << >>
    /\ \E r \in domain_document :
          /\ r.deleted_at # NULL
          /\ r.embedding # NoVector
          /\ similarity_of(r.embedding, encode(response.query))
                 > response.similarity_threshold
    /\ \E r \in domain_document \cup project_convention :
          r.deleted_at = NULL /\ r.embedding = NoVector

\* a text without content: empty, or whitespace characters only
blank(text) == \A i \in 1..Len(text) : SubSeq(text, i, i) \in Whitespace

\* C19: generate_embedding raises its invalid-input error (ValueError) and
\* returns no vector for every text that is empty or only whitespace, and for
\* every other text it raises nothing and returns the vector of the text.
C19_BlankTextRejected ==
    response.op = "generate_embedding" =>
        IF blank(response.text)
        THEN response.raised = ValueError /\ response.embedding = << >>
        ELSE response.raised = None /\ response.embedding = << encode(response.text) >>

\* C19 witness: a text of several whitespace characters of both kinds was
\* rejected
C19_Witness ==
    /\ response.op = "generate_embedding"
    /\ response.raised = ValueError
    /\ contains(response.text, " ") /\ contains(response.text, "\t")

\* a search with the query of the last response was rejected for its input
\* before a repository was queried, and returned no SearchResult
rejected_before_querying ==
    /\ response.raised = ValueError
    /\ DOMAIN response.queried = {}
    /\ response.found = << >>

\* C20: a search with an empty query, made through the service or through the
\* semantic_search tool, fails with the invalid-input error (ValueError)
\* before either repository is queried and returns no SearchResult.
C20_EmptyQueryRejectedBeforeQuerying ==
    (response.op \in SearchOps /\ response.query = "") => rejected_before_querying

\* the part of C20 that concerns SemanticSearchService.search: every query
\* without content is rejected before a repository is queried, and a search
\* leaves the four tables as they are
C20_ServiceOnly ==
    /\ []((response.op = "search" /\ blank(response.query)) => rejected_before_querying)
    /\ [][response'.op \in SearchOps /\ response' # response => tables' = tables]_vars

\* C21: the adapter constructs its model at most once: nothing is loaded
\* before the first call, and the model is assigned exactly when one load has
\* happened, however the first calls interleave.
C21_ModelLoadedAtMostOnce ==
    /\ loads <= 1
    /\ (loads = 0) = (_model = None)

\* the part of C21 that concerns calls made one after the other: construction
\* loads nothing, the first call loads, later calls do not load again
C21_SequentialOnly ==
    /\ [](loads <= 1 /\ (loads = 0) = (_model = None))
    /\ [](response.op = "generate_embedding" => loads = 1)

\* the logical keys of a family
AllKeysOf(family) == IF family = DOMAIN_DOCUMENT THEN AllDocumentKeys ELSE ConventionKeys

\* find_all_latest_by_project of the repository of a family
find_all_latest_of(family, project) ==
    IF family = DOMAIN_DOCUMENT THEN find_all_latest_by_project(project)
    ELSE convention_find_all_latest_by_project(project)

\* the aggregates found are, one for one, the latest versions of the keys of
\* the project that have a non-deleted row
latest_of_each_active_key(family, project) ==
    LET found == find_all_latest_of(family, project)
        keys == {key \in AllKeysOf(family) :
                    key[1] = project /\ active_rows_of(family, key) # {}}
    IN /\ found.raised = None
       /\ Len(found.value) = Cardinality(keys)
       /\ \A key \in keys :
             \E i \in 1..Len(found.value) :
                 << found.value[i] >> = find_latest_by_logical_key(family, key).value

\* C22: in every state find_all_latest_by_project(P) of either family returns
\* exactly one aggregate for each logical key of P that has a non-deleted row,
\* equal to find_latest_by_logical_key of that key, and nothing else.
C22_LatestOfEachActiveKey ==
    \A family \in Families : \A project \in AllProjects :
        latest_of_each_active_key(family, project)

\* the part of C22 that concerns domain documents only
C22_DocumentsOnly ==
    \A project \in AllProjects : latest_of_each_active_key(DOMAIN_DOCUMENT, project)

\* read_domain_spec returned the non-deleted row of the key with the given
\* version, or, the version omitted (0), its highest non-deleted version; or
\* it returned the absent value, there being no such row
reads_that_version(key, version) ==
    LET read == read_domain_spec(key, version)
        matching == {r \in active_rows_of(DOMAIN_DOCUMENT, key) :
                        IF version = 0
                        THEN \A o \in active_rows_of(DOMAIN_DOCUMENT, key) :
                                 o.version <= r.version
                        ELSE r.version = version}
    IN /\ read.raised = None
       /\ (matching = {}) = (read.value = << >>)
       /\ read.value # << >> =>
             \E r \in matching : /\ read.value[1].identifier = r.identifier
                                 /\ read.value[1].version = r.version

\* C23: read_domain_spec with the version omitted returns the latest
\* non-deleted version of the key, with a version given exactly that
\* non-deleted version, and the absent value, never an error, when nothing
\* matches.
C23_ReadSpecLatestOrExact ==
    \A key \in DocumentKeys : \A version \in 0..MaxCalls :
        reads_that_version(key, version)

\* the part of C23 that concerns a read with the version given
C23_VersionGivenOnly ==
    \A key \in DocumentKeys : \A version \in 1..MaxCalls :
        reads_that_version(key, version)

\* C24: read_project_conventions for a project and a category returns
\* exactly the members of its result for the project alone whose category is
\* the one asked for, a list in both cases.
C24_CategoryFiltersLatestPerKey ==
    \A project \in AllProjects : \A category \in Categories :
        LET filtered == read_project_conventions(project, category)
            whole == read_project_conventions(project, None)
        IN /\ filtered.raised = None
           /\ whole.raised = None
           /\ {filtered.value[i] : i \in 1..Len(filtered.value)}
                  = {m \in {whole.value[i] : i \in 1..Len(whole.value)} :
                         m.category = category}

\* the list of project names of a family holds each name once, and holds a
\* name exactly when the family stores a non-deleted row of that project
lists_active_projects_once(family) ==
    LET names == get_all_unique_project_names(family)
    IN /\ names.raised = None
       /\ \A name \in DOMAIN names.value : names.value[name] = 1
       /\ \A project \in AllProjects :
             (project \in DOMAIN names.value)
                 = (\E r \in TableOf(family) : r.project = project /\ r.deleted_at = NULL)
       /\ DOMAIN names.value \subseteq AllProjects

\* C25: in every state get_all_unique_project_names of either family returns
\* each project name at most once and returns a name exactly when the family
\* holds a non-deleted row of that project.
C25_ActiveProjectsListedOnce ==
    \A family \in Families : lists_active_projects_once(family)

\* the part of C25 that concerns domain documents only
C25_DocumentsOnly == lists_active_projects_once(DOMAIN_DOCUMENT)

\* find_by_identifier returns the aggregate that the last save stored, with
\* its identifier, logical key, version and content fields, and with both
\* timestamps set; the properties and policies are compared as collections
round_trip(family) ==
    (response.op = "save" /\ response.raised = None /\ response.family = family) =>
        LET saved == response.aggregate
            found == find_by_identifier(family, response.identifier)
        IN /\ found.raised = None
           /\ found.value # << >>
           /\ LET read == found.value[1]
              IN /\ read.identifier = saved.identifier
                 /\ read.project = saved.project
                 /\ read.version = saved.version
                 /\ read.created_at # NULL /\ read.updated_at # NULL
                 /\ IF family = DOMAIN_DOCUMENT
                    THEN /\ read.service = saved.service /\ read.domain = saved.domain
                         /\ read.summary = saved.summary
                         /\ read.properties
                                = {saved.properties[i] : i \in 1..Len(saved.properties)}
                         /\ read.policies
                                = {saved.policies[i] : i \in 1..Len(saved.policies)}
                    ELSE /\ read.category = saved.category /\ read.title = saved.title
                         /\ read.content = saved.content
                         /\ read.example_correct = saved.example_correct
                         /\ read.example_incorrect = saved.example_incorrect

\* C26: after save(a), find_by_identifier(a.identifier) returns an aggregate
\* with the identifier, logical key, version and content fields of a, and with
\* created_at and updated_at present, in either family.
C26_SaveThenFindRoundTrip == \A family \in Families : round_trip(family)

\* the part of C26 that concerns domain documents only
C26_DocumentsOnly == round_trip(DOMAIN_DOCUMENT)

\* the properties of a stored document in the order of their ordinals
by_display_order(identifier) ==
    LET rows == {q \in domain_property : q.domain_identifier = identifier}
    IN [i \in 1..Cardinality(rows) |->
           DomainProperty(CHOOSE q \in rows : q.display_order = i - 1)]

\* C27: the properties of a document read back from the store appear in the
\* order in which they were declared when that version was written, which is
\* the order of the ordinals stored with them.
C27_PropertiesReadInDeclaredOrder ==
    response.op = "find_by_identifier" =>
        response.properties = by_display_order(response.identifier)

\* the part of C27 that save keeps: the ordinal stored with each property is
\* its position in the declaration
C27_OrdinalsStoredAsDeclared ==
    (response.op = "save" /\ response.raised = None /\ response.family = DOMAIN_DOCUMENT) =>
        by_display_order(response.identifier) = response.aggregate.properties

\* C28: the rows of project_convention carry a nullable deleted_at and an
\* embedding like the rows of domain_document, a soft delete of a convention
\* key succeeds, and find_latest_by_logical_key of the key is absent after it.
C28_ConventionsSoftDeleteAndEmbed ==
    /\ {"deleted_at", "embedding"} \subseteq ProjectConventionEntity
    /\ (response.op = "soft_delete" /\ response.family = PROJECT_CONVENTION) =>
          /\ response.raised = None
          /\ find_latest_by_logical_key(PROJECT_CONVENTION, response.key)
                = Returned(<< >>)

\* C29: a create_or_update that succeeds made exactly one indexing attempt
\* for the version it saved, after the insert of that version committed.
C29_OneIndexingAttemptPerSave ==
    (response.op = "create_or_update" /\ response.raised = None) =>
        /\ response.indexing_attempts = 1
        /\ \E r \in TableOf(response.family) : r.identifier = response.identifier

\* the part of C29 that holds in a service built with an embedding service: a
\* step stores an embedding only in a row that the store held before the step
C29_EmbeddingOnlyForStoredRow ==
    [][\A family \in Families : \A r \in TableOf(family)' :
          (r.embedding # NoVector) =>
              \E stored \in TableOf(family) : stored.identifier = r.identifier]_vars

\* the stored documents with a relationship that targets the document of key
dependents_of(key) ==
    {r.source_domain_identifier : r \in {q \in domain_relationship :
        \E target \in domain_document :
            /\ target.identifier = q.target_domain_identifier
            /\ LogicalKey(DOMAIN_DOCUMENT, target) = key}}

\* C30: analyze_impact of a logical key answers that no dependents were found
\* exactly when no stored document has a relationship targeting the key.
C30_ImpactFollowsStoredRelationships ==
    \A key \in AllDocumentKeys :
        (analyze_impact(key[1], key[2], key[3]).message = NotReferenced)
            <=> (dependents_of(key) = {})

\* the part of C30 that holds: every key but the one the placeholder names
\* gets the answer that the stored relationships give
C30_OtherKeysOnly ==
    \A key \in AllDocumentKeys \ {<<"Ttutta", "Auth", "User">>} :
        (analyze_impact(key[1], key[2], key[3]).message = NotReferenced)
            <=> (dependents_of(key) = {})

\* the version number a create_or_update call started now on the key computes
\* is not stored for the key, so that its save raises no conflict
fresh_call_succeeds(family, key) ==
    LET latest_version == find_latest_by_logical_key(family, key)
    IN /\ latest_version.raised = None
       /\ \A r \in rows_of(family, key) :
             r.version # new_version_number(latest_version.value)

\* a save that raises ends the call at once: the error is the call's outcome,
\* nothing is read, constructed or written again
propagates_conflict ==
    \A p \in Callers :
        (save_step(p) /\ violates_constraints(call[p].family,
                                              to_entity(call[p].family, call[p].model[1])))
            => /\ pc'[p] = "idle"
               /\ call'[p] = NoCall
               /\ response'.caller = p
               /\ response'.raised = IntegrityError
               /\ uuids' = uuids
               /\ tables' = tables

\* C31: a create_or_update call whose save fails with a uniqueness conflict
\* does not retry: it raises the error to its caller; a fresh call on the same
\* key started afterwards computes the next free version and can succeed.
C31_ConflictPropagatesAndFreshCallSucceeds ==
    /\ [][propagates_conflict]_vars
    /\ [](response.raised = IntegrityError
              => fresh_call_succeeds(response.family, response.key))

\* the part of C31 that holds: the conflict is propagated without a retry, and
\* a fresh call succeeds on a key that has a version that is not deleted
C31_FreshCallSucceedsOnActiveKey ==
    /\ [][propagates_conflict]_vars
    /\ []((response.raised = IntegrityError
              /\ active_rows_of(response.family, response.key) # {})
              => fresh_call_succeeds(response.family, response.key))

\* a soft delete has marked a version of the domain-document key
soft_deleted(key) == \E r \in rows_of(DOMAIN_DOCUMENT, key) : r.deleted_at # NULL

\* a create_or_update call started on a soft-deleted key computes version 1,
\* and the save of a call on a soft-deleted key raises the conflict and stores
\* nothing
stays_deleted ==
    \A p \in Callers :
        /\ (/\ pc[p] = "idle" /\ pc'[p] = "constructed"
            /\ call'[p].family = DOMAIN_DOCUMENT
            /\ soft_deleted(call'[p].key))
              => /\ call'[p].model[1].version = 1
                 /\ \E r \in rows_of(DOMAIN_DOCUMENT, call'[p].key) : r.version = 1
        /\ (/\ save_step(p)
            /\ call[p].family = DOMAIN_DOCUMENT
            /\ soft_deleted(call[p].key))
              => /\ response'.caller = p
                 /\ response'.raised # None
                 /\ tables' = tables

\* C32: once a domain-document key with at least one version was soft-deleted,
\* every later create_or_update of the key computes version 1, collides with
\* the deleted row of that version, fails and stores nothing, so that the key
\* never has an active version again.
C32_SoftDeletedKeyStaysDeleted ==
    /\ [][stays_deleted]_vars
    /\ [](\A key \in DocumentKeys :
             soft_deleted(key) => active_rows_of(DOMAIN_DOCUMENT, key) = {})

\* the step stores the vector in the document row of the identifier, if there
\* is one, and changes no other row and no set of rows
stores_vector_of(identifier, vector) ==
    /\ {r.identifier : r \in domain_document'} = {r.identifier : r \in domain_document}
    /\ Cardinality(domain_document') = Cardinality(domain_document)
    /\ \A r \in domain_document : r.identifier # identifier => r \in domain_document'
    /\ \A r \in domain_document' : r.identifier = identifier => r.embedding = vector
    /\ <<domain_property, domain_policy, project_convention>>'
           = <<domain_property, domain_policy, project_convention>>

\* C33: indexing a document stores the vector in the row of the document's
\* identifier, replacing the vector the row had; it adds no row and changes no
\* other row, other versions of the same logical key included.
C33_IndexingOverwritesOneRow ==
    [][/\ (response' # response /\ response'.op = "create_embedding")
             => stores_vector_of(response'.identifier, response'.embedding)
       /\ \A p \in Callers :
             (pc[p] = "saved" /\ pc'[p] = "idle" /\ domain_document' # domain_document)
                 => \E vector \in {r.embedding : r \in domain_document'} \ {NoVector} :
                        stores_vector_of(call[p].model[1].identifier, vector)]_vars

\* C33 witness: a version that had a vector was indexed again with another
\* vector, while another version of its logical key keeps its own vector
C33_Witness ==
    /\ response.op = "create_embedding"
    /\ response.prior \cap {NoVector, response.embedding} = {}
    /\ response.prior # {}
    /\ \E r, other \in domain_document :
          /\ r.identifier = response.identifier
          /\ r.embedding = response.embedding
          /\ other.identifier # r.identifier
          /\ LogicalKey(DOMAIN_DOCUMENT, other) = LogicalKey(DOMAIN_DOCUMENT, r)
          /\ other.embedding \notin {NoVector, r.embedding}

\* the non-deleted, embedded rows of the family that are similar enough to the
\* query of the last search and are not the latest version of their key
superseded_rows(family) ==
    {r \in TableOf(family) :
        /\ r.deleted_at = NULL /\ r.embedding # NoVector
        /\ similarity_of(r.embedding, encode(response.query))
               > response.similarity_threshold
        /\ \E other \in TableOf(family) :
              /\ LogicalKey(family, other) = LogicalKey(family, r)
              /\ other.version > r.version}

\* C34: a non-deleted, embedded version that a later version of its logical
\* key superseded is returned by a search like any other row: it is left out
\* only when top_k matches that are at least as similar are returned.
C34_SupersededVersionsAreSearched ==
    search_returned =>
        \A family \in Families : \A r \in superseded_rows(family) :
            \/ \E i \in 1..Len(returned_matches) :
                  /\ returned_matches[i].document_type = family
                  /\ returned_matches[i].document_id = r.identifier
            \/ /\ Len(returned_matches) = response.top_k
               /\ \A i \in 1..Len(returned_matches) :
                     returned_matches[i].similarity
                         >= similarity_of(r.embedding, encode(response.query))

\* C34 witness: a search returned two versions of one domain-document key
C34_Witness ==
    /\ search_returned
    /\ \E i, j \in 1..Len(returned_matches) :
          /\ returned_matches[i].document_type = DOMAIN_DOCUMENT
          /\ returned_matches[j].document_type = DOMAIN_DOCUMENT
          /\ LogicalKey(DOMAIN_DOCUMENT, row_of(returned_matches[i]))
                = LogicalKey(DOMAIN_DOCUMENT, row_of(returned_matches[j]))
          /\ row_of(returned_matches[i]).version < row_of(returned_matches[j]).version

\* C35: the SearchResult of a search carries the query text as it was given
\* and the number of the matches it lists as total_count; every match is tagged
\* with the family whose repository returned the row, and its document_id is
\* the identifier of that row.
C35_ResultEchoesQueryAndTagsMatches ==
    search_returned =>
        /\ response.found[1].query = response.query
        /\ response.found[1].total_count = Len(returned_matches)
        /\ \A i \in 1..Len(returned_matches) :
              LET match == returned_matches[i]
              IN /\ match.document_type \in Families
                 /\ \E n \in 1..Len(response.queried[match.document_type]) :
                       response.queried[match.document_type][n] = match.document_id
                 /\ \E r \in TableOf(match.document_type) :
                       r.identifier = match.document_id
                 /\ match.content.identifier = match.document_id

\* C35 witness: a search returned matches of both families, fewer than the
\* two repositories returned together
C35_Witness ==
    /\ search_returned
    /\ \A family \in Families :
          \E i \in 1..Len(returned_matches) : returned_matches[i].document_type = family
    /\ Len(returned_matches)
          < Len(response.queried[DOMAIN_DOCUMENT])
                + Len(response.queried[PROJECT_CONVENTION])

\* the rows of every logical key but the given one, child rows included, are
\* after the step what they were before it
others_kept(family, key) ==
    /\ \A f \in Families :
          {r \in TableOf(f) : <<f, LogicalKey(f, r)>> # <<family, key>>}
              = {r \in TableOf(f)' : <<f, LogicalKey(f, r)>> # <<family, key>>}
    /\ LET others == {r.identifier : r \in {q \in domain_document :
                          <<DOMAIN_DOCUMENT, LogicalKey(DOMAIN_DOCUMENT, q)>>
                              # <<family, key>>}}
       IN /\ {c \in domain_property : c.domain_identifier \in others}
                = {c \in domain_property' : c.domain_identifier \in others}
          /\ {c \in domain_policy : c.domain_identifier \in others}
                = {c \in domain_policy' : c.domain_identifier \in others}

\* C36: a create_or_update or a soft delete on a logical key changes no row of
\* another logical key or of the other family; a writer computes its version
\* from the rows of its own key, and its save succeeds unless its own key
\* holds that version, whatever writers to other keys do meanwhile.
C36_OtherKeysUntouched ==
    [][/\ \A p \in Callers :
             /\ (pc[p] # "idle" /\ pc'[p] # pc[p])
                   => others_kept(call[p].family, call[p].key)
             /\ (pc[p] = "idle" /\ pc'[p] = "constructed")
                   => /\ others_kept(call'[p].family, call'[p].key)
                      /\ call'[p].model[1].version
                            = 1 + max_version(active_rows_of(call'[p].family,
                                                             call'[p].key))
             /\ (save_step(p) /\ \A r \in rows_of(call[p].family, call[p].key) :
                                     r.version # call[p].model[1].version)
                   => pc'[p] = "saved"
       /\ soft_delete_step => others_kept(response'.family, response'.key)]_vars

\* C36 witness: two writers to different keys have both saved, one the first
\* version of its key and the other a later version of its key, while
\* conventions are stored
C36_Witness ==
    /\ pc = [p \in Callers |-> IF p <= 2 THEN "saved" ELSE pc[p]]
    /\ call[1].key # call[2].key
    /\ call[1].model[1].version # call[2].model[1].version
    /\ \A p \in {1, 2} : \E r \in active_rows_of(call[p].family, call[p].key) :
          r.identifier = call[p].model[1].identifier
    /\ project_convention # {}

\* the places of the separator " | " in a text
cuts(text) == {i \in 1..(Len(text) - 2) : SubSeq(text, i, i + 2) = " | "}

\* the n-th of the sections that the separator divides the text into
section(text, n) ==
    LET cut(k) == CHOOSE i \in cuts(text) : Cardinality({j \in cuts(text) : j < i}) = k - 1
    IN SubSeq(text, IF n = 1 THEN 1 ELSE cut(n - 1) + 3,
                    IF n = Cardinality(cuts(text)) + 1 THEN Len(text) ELSE cut(n) - 1)

\* the section ends with the value
ends_with(part, value) ==
    /\ Len(part) >= Len(value)
    /\ SubSeq(part, Len(part) - Len(value) + 1, Len(part)) = value

\* the first place of the word in the text, 0 when it does not occur
place_of(text, word) ==
    LET places == {i \in 1..(Len(text) - Len(word) + 1) :
                       SubSeq(text, i, i + Len(word) - 1) = word}
    IN IF places = {} THEN 0 ELSE CHOOSE i \in places : \A j \in places : i <= j

\* the section lists the items one after the other in the order of the list
lists_in_order(part, items) ==
    /\ \A i \in 1..Len(items) : place_of(part, items[i]) > 0
    /\ \A i, j \in 1..Len(items) :
          i < j => place_of(part, items[i]) < place_of(part, items[j])

\* the number of sections of the projection of the last call
sections == Cardinality(cuts(response.text)) + 1

\* C37: the projected text is a list of sections joined by " | ". A document
\* gives domain, project, service, summary, then one section of its properties
\* as "name(type): description" in list order if it has properties, then one
\* section of its policies as "category - content" if it has policies. A
\* convention gives title, category, content, then the correct example and
\* the incorrect example, each only if it is present and not empty.
C37_ProjectionListsFieldsInOrder ==
    /\ response.op = "_create_document_text" =>
          LET doc == response.aggregate
              has_properties == IF doc.properties # << >> THEN 1 ELSE 0
              has_policies == IF doc.policies # << >> THEN 1 ELSE 0
          IN /\ sections = 4 + has_properties + has_policies
             /\ ends_with(section(response.text, 1), doc.domain)
             /\ ends_with(section(response.text, 2), doc.project)
             /\ ends_with(section(response.text, 3), doc.service)
             /\ ends_with(section(response.text, 4), doc.summary)
             /\ has_properties = 1 =>
                   lists_in_order(section(response.text, 5),
                       [i \in 1..Len(doc.properties) |->
                           doc.properties[i].name \o "(" \o doc.properties[i].type
                               \o "): " \o doc.properties[i].description])
             /\ has_policies = 1 =>
                   lists_in_order(section(response.text, 5 + has_properties),
                       [i \in 1..Len(doc.policies) |->
                           doc.policies[i].category \o " - " \o doc.policies[i].content])
    /\ response.op = "_create_convention_text" =>
          LET conv == response.aggregate
              has_correct == IF conv.example_correct \in {None, ""} THEN 0 ELSE 1
              has_incorrect == IF conv.example_incorrect \in {None, ""} THEN 0 ELSE 1
          IN /\ sections = 3 + has_correct + has_incorrect
             /\ ends_with(section(response.text, 1), conv.title)
             /\ ends_with(section(response.text, 2), conv.category)
             /\ ends_with(section(response.text, 3), conv.content)
             /\ has_correct = 1 =>
                   ends_with(section(response.text, 4), conv.example_correct)
             /\ has_incorrect = 1 =>
                   ends_with(section(response.text, 4 + has_correct),
                             conv.example_incorrect)

\* C37 witness: the projection of a convention whose correct example is the
\* empty string and whose incorrect example is given
C37_Witness ==
    /\ response.op = "_create_convention_text"
    /\ response.aggregate.example_correct = ""
    /\ response.aggregate.example_incorrect \notin {None, ""}
    /\ sections = 4

\* C38: the batch script processes the stored items that have no embedding
\* and generates embeddings for these only; every item processed counts as one
\* success or one failure; the exit status is 1 exactly when an item failed or
\* a fatal error occurred.
C38_BatchIndexesTheRowsWithoutEmbedding ==
    response.op = "main" =>
        /\ response.processed = Cardinality(response.without_embedding)
        /\ response.indexed \subseteq response.without_embedding
        /\ Cardinality(response.indexed) = response.success
        /\ response.processed = response.success + response.failed
        /\ (response.exit_status = 1) <=> (response.failed > 0 \/ response.raised # None)

\* the part of C38 that holds: the counters add up and the exit status is 1
\* exactly when an item failed or a fatal error occurred
C38_CountersAndExitStatus ==
    response.op = "main" =>
        /\ response.indexed \subseteq response.without_embedding
        /\ response.processed = response.success + response.failed
        /\ (response.exit_status = 1) <=> (response.failed > 0 \/ response.raised # None)

\* C39: generate_embedding loads the model before it validates the text: a
\* call that fails on an empty or whitespace-only text, the first call
\* included, leaves the adapter with its model loaded, and calls made after
\* it load nothing more.
C39_LoadPrecedesValidation ==
    /\ [][(response'.op = "generate_embedding" /\ response'.raised = ValueError)
             => /\ _model' = MODEL_NAME
                /\ loads' = IF _model = None THEN loads + 1 ELSE loads]_vars
    /\ []((response.op = "generate_embedding" /\ response.raised = ValueError)
             => (_model = MODEL_NAME /\ loads = 1))
    /\ [][_model # None => (_model' = _model /\ loads' = loads)]_vars

\* C39 witness: a call failed on a whitespace-only text, the model is loaded
\* and was loaded once
C39_Witness ==
    /\ response.op = "generate_embedding"
    /\ response.raised = ValueError
    /\ response.text # ""
    /\ _model = MODEL_NAME
    /\ loads = 1

====
